---- MODULE Spec2Model ----
(***************************************************************************)
(* Model of the abi-toolkit codec: Encoder, Decoder, the selector and      *)
(* signature utilities, the ABICodec facade and the LogDecoder.            *)
(*                                                                         *)
(* Representation                                                          *)
(*   Buffer        a sequence of bytes 0..255                              *)
(*   hex string    the sequence of the characters after the "0x" prefix;   *)
(*                 a character is 0..15 for 0-9a-f, 16..21 for A-F and 22  *)
(*                 for a character that is no hex digit                    *)
(*   BigInt        [neg, mag]: sign and magnitude, the magnitude being the *)
(*                 big-endian bytes of the number without leading zeros    *)
(*   type string   [js |-> "string", k, n, dims]: the elementary name k,   *)
(*                 its digits n (-1 when there are none) and the array     *)
(*                 suffixes dims, -1 standing for [] and k for [k]         *)
(*   descriptor    [js |-> "object", name, type, components]: an ABI       *)
(*                 parameter object                                        *)
(***************************************************************************)
EXTENDS Integers, Sequences, FiniteSets, TLC

\* ------------------------------------------------------------------------
\* Bounds of the model
\* ------------------------------------------------------------------------

\* longest loop of the decoder the model runs to its end; a longer loop is
\* cut after MaxIter rounds and its result is marked cut
MaxIter == 4

\* ------------------------------------------------------------------------
\* Arbitrary-precision naturals (JavaScript BigInt), big-endian bytes
\* ------------------------------------------------------------------------

Min(a, b) == IF a < b THEN a ELSE b
Max(a, b) == IF a > b THEN a ELSE b

\* the sequence f[1], ..., f[n] in its explicit form
SeqOf(f, n) == SubSeq(f, 1, n)

Zeros(n) == SeqOf([i \in 1..n |-> 0], n)

Front(s) == SubSeq(s, 1, Len(s) - 1)

\* s without its leading zero bytes
Strip(s) == IF \A i \in 1..Len(s) : s[i] = 0 THEN <<>>
            ELSE LET k == CHOOSE i \in 1..Len(s) :
                            s[i] # 0 /\ \A j \in 1..(i - 1) : s[j] = 0
                 IN SubSeq(s, k, Len(s))

\* s with zeros on its left up to the length n: str.padStart(n, '0')
PadTo(s, n) == IF Len(s) >= n THEN s ELSE Zeros(n - Len(s)) \o s

\* a < b for stripped naturals
NatLess(a, b) == \/ Len(a) < Len(b)
                 \/ /\ Len(a) = Len(b)
                    /\ \E i \in 1..Len(a) : a[i] < b[i] /\ \A j \in 1..(i - 1) : a[j] = b[j]

\* a + b for stripped naturals: byte i of the sum takes a carry when the
\* bytes to its right overflow
NatAdd(a, b) ==
  LET n == Max(Len(a), Len(b))
      x == PadTo(a, n)
      y == PadTo(b, n)
      carry(i) == IF \E j \in (i + 1)..n :
                       /\ x[j] + y[j] > 255
                       /\ \A l \in (i + 1)..(j - 1) : x[l] + y[l] = 255
                  THEN 1 ELSE 0
  IN Strip(<<carry(0)>> \o SeqOf([i \in 1..n |-> (x[i] + y[i] + carry(i)) % 256], n))

\* a - b for stripped naturals with b <= a: byte i of the difference gives
\* a borrow when the bytes to its right need one
NatSub(a, b) ==
  LET n == Max(Len(a), Len(b))
      x == PadTo(a, n)
      y == PadTo(b, n)
      borrow(i) == IF \E j \in (i + 1)..n :
                        /\ x[j] < y[j]
                        /\ \A l \in (i + 1)..(j - 1) : x[l] = y[l]
                   THEN 1 ELSE 0
  IN Strip(SeqOf([i \in 1..n |-> (256 + x[i] - y[i] - borrow(i)) % 256], n))

\* 1n << BigInt(n)
Pow2(n) == <<2 ^ (n % 8)>> \o Zeros(n \div 8)

Big(neg, mag) == [neg |-> neg /\ mag # <<>>, mag |-> mag]

BigOfNat(mag) == Big(FALSE, mag)

BigLess(x, y) == IF x.neg /\ ~y.neg THEN TRUE
                 ELSE IF ~x.neg /\ y.neg THEN FALSE
                 ELSE IF x.neg THEN NatLess(y.mag, x.mag)
                 ELSE NatLess(x.mag, y.mag)

BigAdd(x, y) == IF x.neg = y.neg THEN Big(x.neg, NatAdd(x.mag, y.mag))
                ELSE IF NatLess(x.mag, y.mag)
                     THEN Big(y.neg, NatSub(y.mag, x.mag))
                     ELSE Big(x.neg, NatSub(x.mag, y.mag))

BigSub(x, y) == BigAdd(x, Big(~y.neg, y.mag))

RECURSIVE NatOfInt(_)
NatOfInt(n) == IF n = 0 THEN <<>> ELSE NatOfInt(n \div 256) \o <<n % 256>>

BigOfInt(n) == IF n < 0 THEN Big(TRUE, NatOfInt(0 - n)) ELSE Big(FALSE, NatOfInt(n))

\* a number too large for the model's integers: every buffer is shorter
Huge == 16777216

RECURSIVE IntOfNat(_)
IntOfNat(s) == IF s = <<>> THEN 0 ELSE (IntOfNat(Front(s)) * 256) + s[Len(s)]

\* Number(value) of a non-negative BigInt
ToNumber(mag) == IF Len(mag) > 3 THEN Huge ELSE IntOfNat(mag)

\* ------------------------------------------------------------------------
\* JavaScript values
\* ------------------------------------------------------------------------

VDec(big)    == [js |-> "string", form |-> "dec", big |-> big]
VHex(digits) == [js |-> "string", form |-> "hex", hex |-> digits]
VText(chars) == [js |-> "string", form |-> "text", chars |-> chars]
VNum(big)    == [js |-> "number", big |-> big]
VBig(big)    == [js |-> "bigint", big |-> big]
VBool(b)     == [js |-> "boolean", b |-> b]
VArr(items)  == [js |-> "array", len |-> Len(items), items |-> items]
VBuf(bytes)  == [js |-> "buffer", bytes |-> bytes]
VObj(keys, vals) == [js |-> "object", keys |-> keys, vals |-> vals]
VNull        == [js |-> "null"]

\* an array of len elements of which the model holds the first ones only
VArrCut(len, items) == [js |-> "array", len |-> len, items |-> items]

RECURSIVE HasBigInt(_)
HasBigInt(v) == CASE v.js = "bigint" -> TRUE
                  [] v.js = "array" -> \E i \in 1..Len(v.items) : HasBigInt(v.items[i])
                  [] v.js = "object" -> \E i \in 1..Len(v.vals) : HasBigInt(v.vals[i])
                  [] OTHER -> FALSE

\* `${typeof value === 'object' ? JSON.stringify(value) : value}`; a boolean
\* gives the characters of "true" or of "false"
Render(v) ==
  CASE v.js = "string"  -> [ok |-> TRUE, key |-> [form |-> v.form, str |-> v]]
    [] v.js = "number"  -> [ok |-> TRUE, key |-> [form |-> "dec", str |-> VDec(v.big)]]
    [] v.js = "bigint"  -> [ok |-> TRUE, key |-> [form |-> "dec", str |-> VDec(v.big)]]
    [] v.js = "boolean" -> [ok |-> TRUE, key |-> [form |-> "text",
                              str |-> VText(IF v.b THEN <<116, 114, 117, 101>>
                                            ELSE <<102, 97, 108, 115, 101>>)]]
    [] OTHER -> IF HasBigInt(v) THEN [ok |-> FALSE, key |-> [form |-> "json", str |-> v]]
                ELSE [ok |-> TRUE, key |-> [form |-> "json", str |-> v]]

\* value ? 1 : 0
Truthy(v) == CASE v.js = "boolean" -> v.b
               [] v.js = "null" -> FALSE
               [] v.js \in {"number", "bigint"} -> v.big.mag # <<>>
               [] v.js = "string" -> IF v.form = "text" THEN v.chars # <<>> ELSE TRUE
               [] OTHER -> TRUE

\* ------------------------------------------------------------------------
\* utils.js: hex strings, padding, BigInt conversion
\* ------------------------------------------------------------------------

IsHexDigits(hex) == \A i \in 1..Len(hex) : hex[i] <= 21

\* Buffer.from(hex, 'hex'): an odd last digit is dropped
BytesOfHex(hex) ==
  LET nibble(c) == IF c > 15 THEN c - 6 ELSE c
  IN SeqOf([i \in 1..(Len(hex) \div 2) |->
              (16 * nibble(hex[2 * i - 1])) + nibble(hex[2 * i])],
           Len(hex) \div 2)

hexToBuffer(hex) == IF IsHexDigits(hex) THEN [ok |-> TRUE, buf |-> BytesOfHex(hex)]
                    ELSE [ok |-> FALSE, buf |-> <<>>]

\* buffer.toString('hex')
HexOfBytes(buf) == SeqOf([i \in 1..(2 * Len(buf)) |->
                             IF i % 2 = 1 THEN buf[(i + 1) \div 2] \div 16
                             ELSE buf[i \div 2] % 16],
                         2 * Len(buf))

bufferToHex(buffer) == HexOfBytes(buffer)

\* str.toLowerCase() on hex characters
ToLowerCase(hex) == SeqOf([i \in 1..Len(hex) |-> IF hex[i] \in 16..21 THEN hex[i] - 6 ELSE hex[i]],
                          Len(hex))

\* str.slice(from) and str.slice(from, to) for 0 <= from
Slice(s, from, to) == IF from >= Min(to, Len(s)) THEN <<>>
                      ELSE SubSeq(s, from + 1, Min(to, Len(s)))

SliceFrom(s, from) == Slice(s, from, Len(s))

padLeft(buffer, length) == IF Len(buffer) >= length THEN buffer
                           ELSE Zeros(length - Len(buffer)) \o buffer

padRight(buffer, length) == IF Len(buffer) >= length THEN buffer
                            ELSE buffer \o Zeros(length - Len(buffer))

isHex(v) == v.js = "string" /\ v.form = "hex" /\ IsHexDigits(v.hex)

\* BigInt('0x' + digits) for a non-empty run of hex digits
NatOfHex(hex) == Strip(BytesOfHex(IF Len(hex) % 2 = 1 THEN <<0>> \o hex ELSE hex))

\* value.toString(16)
NatToHex(mag) == IF Strip(HexOfBytes(mag)) = <<>> THEN <<0>> ELSE Strip(HexOfBytes(mag))

toBigInt(value) ==
  CASE value.js = "bigint" -> [ok |-> TRUE, big |-> value.big]
    [] value.js = "number" -> [ok |-> TRUE, big |-> value.big]
    [] value.js = "string" ->
         IF value.form = "dec" THEN [ok |-> TRUE, big |-> value.big]
         ELSE IF value.form = "hex" /\ value.hex # <<>> /\ IsHexDigits(value.hex)
              THEN [ok |-> TRUE, big |-> BigOfNat(NatOfHex(value.hex))]
         ELSE IF value.form = "text" /\ value.chars = <<>>
              THEN [ok |-> TRUE, big |-> BigOfNat(<<>>)]
         ELSE [ok |-> FALSE, big |-> BigOfNat(<<>>)]
    [] OTHER -> [ok |-> FALSE, big |-> BigOfNat(<<>>)]

\* ------------------------------------------------------------------------
\* UTF-8
\* ------------------------------------------------------------------------

\* Buffer.from(value, 'utf8') of characters of the basic plane
RECURSIVE Utf8Encode(_)
Utf8Encode(chars) ==
  LET char(c) == IF c < 128 THEN <<c>>
                 ELSE IF c < 2048 THEN <<192 + (c \div 64), 128 + (c % 64)>>
                 ELSE <<224 + (c \div 4096), 128 + ((c \div 64) % 64), 128 + (c % 64)>>
  IN IF chars = <<>> THEN <<>>
     ELSE char(chars[1]) \o Utf8Encode(Tail(chars))

\* buffer.toString('utf8'); a byte that starts no well-formed sequence
\* becomes U+FFFD
Utf8Decode(b) ==
  LET n == Len(b)
      cont(i) == i >= 1 /\ i <= n /\ b[i] >= 128 /\ b[i] < 192
      two(i) == i >= 1 /\ b[i] >= 194 /\ b[i] < 224 /\ cont(i + 1)
      three(i) == i >= 1 /\ b[i] >= 224 /\ b[i] < 240 /\ cont(i + 1) /\ cont(i + 2)
                  /\ (b[i] - 224) * 4096 + (b[i + 1] - 128) * 64 + (b[i + 2] - 128) >= 2048
      used(i) == cont(i) /\ (two(i - 1) \/ three(i - 1) \/ three(i - 2))
      char(i) == IF b[i] < 128 THEN b[i]
                 ELSE IF two(i) THEN (b[i] - 192) * 64 + (b[i + 1] - 128)
                 ELSE IF three(i)
                      THEN (b[i] - 224) * 4096 + (b[i + 1] - 128) * 64 + (b[i + 2] - 128)
                 ELSE 65533
      starts == SelectSeq(SeqOf([i \in 1..n |-> i], n), LAMBDA i : ~used(i))
  IN SeqOf([j \in 1..Len(starts) |-> char(starts[j])], Len(starts))

\* value.trim()
Trim(s) ==
  LET space(c) == c \in {9, 10, 11, 12, 13, 32, 160, 5760, 8232, 8233, 8239, 8287, 12288, 65279}
                  \/ (c >= 8192 /\ c <= 8202)
      kept == {i \in 1..Len(s) : ~space(s[i])}
  IN IF kept = {} THEN <<>>
     ELSE SubSeq(s, CHOOSE i \in kept : \A j \in kept : i <= j,
                    CHOOSE i \in kept : \A j \in kept : i >= j)

\* value.replace(/\0/g, '')
RemoveNul(s) == SelectSeq(s, LAMBDA c : c # 0)

\* ------------------------------------------------------------------------
\* Type strings and parameter descriptors
\* ------------------------------------------------------------------------

TStr(k, n, dims) == [js |-> "string", k |-> k, n |-> n, dims |-> dims]

TObj(name, type, components) ==
  [js |-> "object", name |-> name, type |-> type, components |-> components]

\* typeof type === 'string' ? type : type.type
TypeStrOf(type) == IF type.js = "string" THEN type ELSE type.type

\* type.includes('[')
HasBracket(t) == t.dims # <<>>

\* type.includes('[]')
HasEmptyBrackets(t) == \E i \in 1..Len(t.dims) : t.dims[i] = -1

\* type === name, for an elementary name without digits
IsName(t, name) == t.k = name /\ t.n = -1 /\ t.dims = <<>>

\* ------------------------------------------------------------------------
\* encoder.js
\* ------------------------------------------------------------------------

\* most entries of Encoder.cache and of Decoder.cache
CacheLimit == 1000

\* parseInt(match[1]) || 256
BitsOf(n) == IF n <= 0 THEN 256 ELSE n

Thrown == [ok |-> FALSE, buf |-> <<>>]

Returned(buf) == [ok |-> TRUE, buf |-> buf]

\* the characters of a natural number written in decimal
RECURSIVE DecimalChars(_)
DecimalChars(n) == IF n < 10 THEN <<48 + n>> ELSE DecimalChars(n \div 10) \o <<48 + (n % 10)>>

\* Buffer.from(value, 'utf8') of a string; a decimal string is one of a
\* number below Huge
StrBytes(v) == CASE v.form = "text" -> Utf8Encode(v.chars)
                 [] v.form = "dec" -> (IF v.big.neg THEN <<45>> ELSE <<>>)
                                        \o DecimalChars(IntOfNat(v.big.mag))
                 [] v.form = "hex" -> <<48, 120>> \o
                      SeqOf([i \in 1..Len(v.hex) |->
                               IF v.hex[i] < 10 THEN 48 + v.hex[i]
                               ELSE IF v.hex[i] < 16 THEN 87 + v.hex[i]
                               ELSE IF v.hex[i] < 22 THEN 49 + v.hex[i] ELSE 103],
                            Len(v.hex))

encodeBool(value) == Returned(padLeft(<<IF Truthy(value) THEN 1 ELSE 0>>, 32))

encodeUint(value, bits) ==
  LET Encode(bigIntValue) ==
        IF ~bigIntValue.ok THEN Thrown
        ELSE IF bigIntValue.big.neg THEN Thrown
        ELSE IF NatLess(NatSub(Pow2(bits), <<1>>), bigIntValue.big.mag) THEN Thrown
        ELSE Returned(BytesOfHex(PadTo(NatToHex(bigIntValue.big.mag), 64)))
  IN Encode(toBigInt(value))

\* encodeUint of a JavaScript number
WordOf(n) == encodeUint(VNum(BigOfInt(n)), 256).buf

encodeInt(value, bits) ==
  LET minValue == Big(TRUE, Pow2(bits - 1))
      maxValue == Big(FALSE, NatSub(Pow2(bits - 1), <<1>>))
      Word(positive) == Returned(BytesOfHex(PadTo(NatToHex(positive.mag), 64)))
      Encode(bigIntValue) ==
        IF ~bigIntValue.ok THEN Thrown
        ELSE IF BigLess(bigIntValue.big, minValue) \/ BigLess(maxValue, bigIntValue.big)
             THEN Thrown
        ELSE IF ~bigIntValue.big.neg THEN Word(bigIntValue.big)
        ELSE Word(BigAdd(BigOfNat(Pow2(256)), bigIntValue.big))
  IN Encode(toBigInt(value))

encodeAddress(value) ==
  IF value.js # "string" THEN Thrown
  ELSE IF value.form # "hex" THEN Thrown
  ELSE IF Len(value.hex) # 40 THEN Thrown
  ELSE LET addressBuffer == hexToBuffer(value.hex)
       IN IF ~addressBuffer.ok THEN Thrown
          ELSE Returned(padLeft(addressBuffer.buf, 32))

\* the buffer encodeFixedBytes and encodeBytes make of their value
BytesValue(value) ==
  IF value.js = "string"
  THEN IF isHex(value) THEN hexToBuffer(value.hex)
       ELSE Returned(StrBytes(value))
  ELSE IF value.js = "buffer" THEN Returned(value.bytes)
  ELSE Thrown

encodeFixedBytes(value, size) ==
  LET Encode(buffer) ==
        IF ~buffer.ok THEN Thrown
        ELSE IF Len(buffer.buf) > size THEN Thrown
        ELSE Returned(padRight(buffer.buf, 32))
  IN Encode(BytesValue(value))

encodeBytes(value) ==
  LET Encode(buffer) ==
        IF ~buffer.ok THEN Thrown
        ELSE Returned(WordOf(Len(buffer.buf))
                        \o padRight(buffer.buf, ((Len(buffer.buf) + 31) \div 32) * 32))
  IN Encode(BytesValue(value))

encodeString(value) ==
  IF value.js # "string" THEN Thrown
  ELSE encodeBytes(VBuf(StrBytes(value)))

_encodeBasicType(type, value) ==
  CASE IsName(type, "bool") -> encodeBool(value)
    [] IsName(type, "address") -> encodeAddress(value)
    [] IsName(type, "bytes") -> encodeBytes(value)
    [] IsName(type, "string") -> encodeString(value)
    [] OTHER ->
         IF type.k = "uint" THEN encodeUint(value, BitsOf(type.n))
         ELSE IF type.k = "int" THEN encodeInt(value, BitsOf(type.n))
         ELSE IF type.k = "bytes" /\ type.n >= 0 THEN encodeFixedBytes(value, type.n)
         ELSE Thrown

\* type.startsWith('tuple')
StartsWithTuple(type) == type.k = "tuple"

Encoder_isDynamicType(type) ==
  IF IsName(type, "string") \/ IsName(type, "bytes") THEN TRUE
  ELSE IF HasEmptyBrackets(type) THEN TRUE
  ELSE IF StartsWithTuple(type) THEN TRUE
  ELSE FALSE

RECURSIVE Concat(_)
Concat(bufs) == IF bufs = <<>> THEN <<>> ELSE bufs[1] \o Concat(Tail(bufs))

EncOk(buf, cache) == [ok |-> TRUE, buf |-> buf, cache |-> cache]

EncThrown(cache) == [ok |-> FALSE, buf |-> <<>>, cache |-> cache]

encodeTuple(type, value, cache) == EncThrown(cache)

\* offset words of a run of encoded elements, the first one being at offset
RECURSIVE OffsetWords(_, _)
OffsetWords(encodedElements, offset) ==
  IF encodedElements = <<>> THEN <<>>
  ELSE WordOf(offset) \o OffsetWords(Tail(encodedElements), offset + Len(encodedElements[1]))

\* how encodeArray reads an array type: the greedy (.+) of arrayRegex leaves
\* the last suffix for the dimension
Encoder_parseArrayType(type) ==
  LET last == type.dims[Len(type.dims)]
  IN [baseType |-> TStr(type.k, type.n, Front(type.dims)),
      isFixedSize |-> last # -1,
      fixedSize |-> IF last # -1 THEN last ELSE "null"]

RECURSIVE encodeParameter(_, _, _)
RECURSIVE encodeArray(_, _, _)
RECURSIVE encodeElements(_, _, _)

\* values.map(value => this.encodeParameter(baseType, value))
encodeElements(baseType, items, cache) ==
  IF items = <<>> THEN [ok |-> TRUE, bufs |-> <<>>, cache |-> cache]
  ELSE LET Map(first) ==
             LET Join(rest) == [ok |-> rest.ok, bufs |-> <<first.buf>> \o rest.bufs,
                                cache |-> rest.cache]
             IN IF ~first.ok THEN [ok |-> FALSE, bufs |-> <<>>, cache |-> first.cache]
                ELSE Join(encodeElements(baseType, Tail(items), first.cache))
       IN Map(encodeParameter(baseType, items[1], cache))

encodeArray(type, values, cache) ==
  LET baseType == Encoder_parseArrayType(type).baseType
      isFixedSize == Encoder_parseArrayType(type).isFixedSize
      last == Encoder_parseArrayType(type).fixedSize
      Pack(length, encodedElements) ==
        IF ~encodedElements.ok THEN EncThrown(encodedElements.cache)
        ELSE IF Encoder_isDynamicType(baseType)
             THEN EncOk(length \o OffsetWords(encodedElements.bufs, values.len * 32)
                          \o Concat(encodedElements.bufs),
                        encodedElements.cache)
             ELSE EncOk(length \o Concat(encodedElements.bufs), encodedElements.cache)
  IN IF values.js # "array" THEN EncThrown(cache)
     ELSE IF isFixedSize /\ values.len # last THEN EncThrown(cache)
     ELSE Pack(IF isFixedSize THEN <<>> ELSE WordOf(values.len),
               encodeElements(baseType, values.items, cache))

encodeParameter(type, value, cache) ==
  LET Basic(basic) == [ok |-> basic.ok, buf |-> basic.buf, cache |-> cache]
      Store(cacheKey, result) ==
        IF ~result.ok THEN result
        ELSE IF Cardinality(DOMAIN result.cache) < CacheLimit
             THEN EncOk(result.buf, result.cache @@ (cacheKey :> result.buf))
             ELSE result
      Encode(rendered, cacheKey, result) ==
        IF ~rendered.ok THEN EncThrown(cache)
        ELSE IF cacheKey \in DOMAIN cache THEN EncOk(cache[cacheKey], cache)
        ELSE Store(cacheKey, result)
  IN Encode(Render(value), [type |-> type, value |-> Render(value).key],
            IF HasBracket(type) THEN encodeArray(type, value, cache)
            ELSE IF StartsWithTuple(type) THEN encodeTuple(type, value, cache)
            ELSE Basic(_encodeBasicType(type, value)))

\* the loop of encodeParameters from parameter i on
RECURSIVE encodeFrom(_, _, _, _, _)
encodeFrom(types, values, i, dynamicOffset, cache) ==
  LET typeStr == TypeStrOf(types[i])
      Dynamic(encoded, rest) ==
        [ok |-> rest.ok,
         staticParts |-> <<WordOf(dynamicOffset)>> \o rest.staticParts,
         dynamicParts |-> <<encoded.buf>> \o rest.dynamicParts,
         cache |-> rest.cache]
      Static(encoded, rest) ==
        [ok |-> rest.ok,
         staticParts |-> <<encoded.buf>> \o rest.staticParts,
         dynamicParts |-> rest.dynamicParts,
         cache |-> rest.cache]
      Push(encoded) ==
        IF ~encoded.ok
        THEN [ok |-> FALSE, staticParts |-> <<>>, dynamicParts |-> <<>>, cache |-> encoded.cache]
        ELSE IF Encoder_isDynamicType(typeStr)
             THEN Dynamic(encoded, encodeFrom(types, values, i + 1,
                                              dynamicOffset + Len(encoded.buf), encoded.cache))
             ELSE Static(encoded, encodeFrom(types, values, i + 1, dynamicOffset,
                                             encoded.cache))
  IN IF i > Len(types)
     THEN [ok |-> TRUE, staticParts |-> <<>>, dynamicParts |-> <<>>, cache |-> cache]
     ELSE Push(encodeParameter(typeStr, values[i], cache))

\* returns [ok, hex, cache]: the hex string returned, or ok = FALSE when
\* the call throws; cache is Encoder.cache after the call
encodeParameters(types, values, cache) ==
  LET Combine(parts) ==
        IF ~parts.ok THEN [ok |-> FALSE, hex |-> <<>>, cache |-> parts.cache]
        ELSE [ok |-> TRUE,
              hex |-> bufferToHex(Concat(parts.staticParts) \o Concat(parts.dynamicParts)),
              cache |-> parts.cache]
  IN IF Len(types) # Len(values) THEN [ok |-> FALSE, hex |-> <<>>, cache |-> cache]
     ELSE Combine(encodeFrom(types, values, 1, Len(types) * 32, cache))

\* ------------------------------------------------------------------------
\* decoder.js
\* ------------------------------------------------------------------------

\* nextOffset when parseInt found no digits
NaN == -1

DecThrown == [ok |-> FALSE, value |-> VNull, nextOffset |-> 0]

DecReturned(value, nextOffset) == [ok |-> TRUE, value |-> value, nextOffset |-> nextOffset]

\* the bytes decodeUint makes its value of; ok = FALSE when a read throws
UintBytes(buffer, offset, bits) ==
  IF bits <= 64
  THEN IF offset + 32 > Len(buffer) THEN Thrown
       ELSE Returned(SubSeq(buffer, offset + 25, offset + 32))
  ELSE Returned(Slice(buffer, offset, offset + 32))

decodeUint(buffer, offset, bits) ==
  LET Decode(bytes) ==
        IF ~bytes.ok THEN DecThrown
        ELSE IF NatLess(NatSub(Pow2(bits), <<1>>), Strip(bytes.buf)) THEN DecThrown
        ELSE DecReturned(VDec(BigOfNat(Strip(bytes.buf))), offset + 32)
  IN Decode(UintBytes(buffer, offset, bits))

\* Number(this.decodeUint(buffer, offset).value)
NumberAt(buffer, offset) == ToNumber(decodeUint(buffer, offset, 256).value.big.mag)

decodeInt(buffer, offset, bits) ==
  LET slice == Slice(buffer, offset, offset + 32)
      signBit == BigOfNat(Pow2(bits - 1))
      minValue == Big(TRUE, Pow2(bits - 1))
      maxValue == Big(FALSE, NatSub(Pow2(bits - 1), <<1>>))
      Signed(word) == IF ~BigLess(word, signBit) THEN BigSub(word, BigOfNat(Pow2(bits)))
                      ELSE word
      Check(value) == IF BigLess(value, minValue) \/ BigLess(maxValue, value) THEN DecThrown
                      ELSE DecReturned(VDec(value), offset + 32)
  IN IF slice = <<>> THEN DecThrown
     ELSE Check(Signed(BigOfNat(Strip(slice))))

decodeBool(buffer, offset) ==
  IF offset + 31 >= Len(buffer) THEN DecThrown
  ELSE DecReturned(VBool(buffer[offset + 32] # 0), offset + 32)

decodeAddress(buffer, offset) ==
  LET addressBytes == Slice(buffer, offset + 12, offset + 32)
  IN DecReturned(VHex(ToLowerCase(HexOfBytes(addressBytes))), offset + 32)

decodeFixedBytes(buffer, offset, size) ==
  DecReturned(VHex(HexOfBytes(Slice(buffer, offset, offset + size))), offset + 32)

decodeBytesAt(buffer, offset) ==
  LET dataOffset == offset + 32
      Read(length) ==
        DecReturned(VHex(HexOfBytes(Slice(buffer, dataOffset, dataOffset + length))),
                    dataOffset + ((length + 31) \div 32) * 32)
  IN Read(NumberAt(buffer, offset))

decodeBytes(buffer, offset) == decodeBytesAt(buffer, offset)

decodeString(buffer, offset) ==
  LET Text(bytesResult) ==
        DecReturned(VText(Trim(RemoveNul(Utf8Decode(BytesOfHex(bytesResult.value.hex))))),
                    bytesResult.nextOffset)
  IN Text(decodeBytes(buffer, offset))

_decodeBasicType(typeStr, buffer, offset) ==
  CASE IsName(typeStr, "bool") -> decodeBool(buffer, offset)
    [] IsName(typeStr, "address") -> decodeAddress(buffer, offset)
    [] IsName(typeStr, "bytes") -> decodeBytes(buffer, offset)
    [] IsName(typeStr, "string") -> decodeString(buffer, offset)
    [] OTHER ->
         IF typeStr.k = "uint" THEN decodeUint(buffer, offset, BitsOf(typeStr.n))
         ELSE IF typeStr.k = "int" THEN decodeInt(buffer, offset, BitsOf(typeStr.n))
         ELSE IF typeStr.k = "bytes" /\ typeStr.n >= 0
              THEN decodeFixedBytes(buffer, offset, typeStr.n)
         ELSE DecThrown

RECURSIVE Decoder_isDynamicType(_)
Decoder_isDynamicType(type) ==
  LET typeStr == TypeStrOf(type)
  IN IF IsName(typeStr, "string") \/ IsName(typeStr, "bytes") THEN TRUE
     ELSE IF HasEmptyBrackets(typeStr) THEN TRUE
     ELSE IF StartsWithTuple(typeStr) /\ type.js = "object" /\ type.components # <<>>
          THEN \E i \in 1..Len(type.components) : Decoder_isDynamicType(type.components[i])
     ELSE FALSE

\* result[fieldName] = value
ObjSet(obj, key, val) ==
  IF \E i \in 1..Len(obj.keys) : obj.keys[i] = key
  THEN VObj(obj.keys, SeqOf([i \in 1..Len(obj.keys) |->
                               IF obj.keys[i] = key THEN val ELSE obj.vals[i]], Len(obj.keys)))
  ELSE VObj(obj.keys \o <<key>>, obj.vals \o <<val>>)

\* component.name || `field${i}`
FieldName(component, i) == IF component.name # "" THEN component.name
                           ELSE "field" \o ToString(i)

\* rounds of a decoder loop the model runs: all that read inside the buffer
IterCap(buffer) == MaxIter + (Len(buffer) \div 32)

\* what decoding returns: the value and nextOffset, Decoder.cache after the
\* call, and cut = TRUE when a loop was cut, the value and the cache then
\* being those of its first rounds
DecOk(value, nextOffset, cache, cut) ==
  [ok |-> TRUE, value |-> value, nextOffset |-> nextOffset, cache |-> cache, cut |-> cut]

DecErr(cache, cut) ==
  [ok |-> FALSE, value |-> VNull, nextOffset |-> 0, cache |-> cache, cut |-> cut]

\* how decodeArray reads an array type: the base type ends at the first
\* bracket, and parseInt reads the digits that follow it
Decoder_parseArrayType(type) ==
  LET arraySpec == type.dims
  IN [baseType |-> TStr(type.k, type.n, <<>>),
      isFixedSize |-> arraySpec # <<-1>>,
      fixedSize |-> IF arraySpec = <<-1>> THEN "null"
                    ELSE IF arraySpec[1] >= 0 THEN arraySpec[1] ELSE NaN]

RECURSIVE decodeParameter(_, _, _, _)
RECURSIVE decodeArray(_, _, _, _)
RECURSIVE decodeTuple(_, _, _, _)
RECURSIVE decodeDynamicElements(_, _, _, _, _, _, _)
RECURSIVE decodeStaticElements(_, _, _, _, _, _)
RECURSIVE decodeStaticFields(_, _, _, _, _, _, _)
RECURSIVE decodeDynamicFields(_, _, _, _)

\* rounds i .. n-1 of the loop over the elements of a dynamic element type;
\* the rounds run in order, each on the cache the one before left
decodeDynamicElements(baseType, buffer, staticOffset, base, i, n, cache) ==
  LET One(element) ==
        [ok |-> element.ok, items |-> IF element.ok THEN <<element.value>> ELSE <<>>,
         cache |-> element.cache, cut |-> element.cut]
      Join(front, rest) ==
        [ok |-> rest.ok, items |-> front.items \o rest.items,
         cache |-> rest.cache, cut |-> front.cut \/ rest.cut]
      Then(mid, front) ==
        IF ~front.ok THEN front
        ELSE Join(front, decodeDynamicElements(baseType, buffer, staticOffset, base,
                                               mid, n, front.cache))
      Halves(mid) ==
        Then(mid, decodeDynamicElements(baseType, buffer, staticOffset, base, i, mid, cache))
  IN IF i >= n THEN [ok |-> TRUE, items |-> <<>>, cache |-> cache, cut |-> FALSE]
     ELSE IF n - i = 1
     THEN One(decodeParameter(baseType, buffer,
                              base + NumberAt(buffer, staticOffset + i * 32), cache))
     ELSE Halves((i + n) \div 2)

\* rounds i .. n-1 of the loop over the elements of a static element type
decodeStaticElements(baseType, buffer, currentOffset, i, n, cache) ==
  LET One(element) ==
        [ok |-> element.ok, items |-> IF element.ok THEN <<element.value>> ELSE <<>>,
         nextOffset |-> IF element.ok THEN element.nextOffset ELSE currentOffset,
         cache |-> element.cache, cut |-> element.cut]
      Join(front, rest) ==
        [ok |-> rest.ok, items |-> front.items \o rest.items,
         nextOffset |-> rest.nextOffset,
         cache |-> rest.cache, cut |-> front.cut \/ rest.cut]
      Then(mid, front) ==
        IF ~front.ok THEN front
        ELSE Join(front, decodeStaticElements(baseType, buffer, front.nextOffset,
                                              mid, n, front.cache))
      Halves(mid) ==
        Then(mid, decodeStaticElements(baseType, buffer, currentOffset, i, mid, cache))
  IN IF i >= n THEN [ok |-> TRUE, items |-> <<>>, nextOffset |-> currentOffset,
                     cache |-> cache, cut |-> FALSE]
     ELSE IF n - i = 1 THEN One(decodeParameter(baseType, buffer, currentOffset, cache))
     ELSE Halves((i + n) \div 2)

\* start is where the array begins, arrayLength its length and currentOffset
\* where its elements begin; rounds of the loops are run, and when the array
\* is longer the rounds left out read beyond the end of the buffer: beyond
\* tells whether such a read throws
decodeArray(type, buffer, offset, cache) ==
  LET baseType == Decoder_parseArrayType(type).baseType
      isFixedSize == Decoder_parseArrayType(type).isFixedSize
      fixedSize == Decoder_parseArrayType(type).fixedSize
      isDynamic == Decoder_isDynamicType(type)
      Dynamic(arrayLength, currentOffset, isCut, elems) ==
        IF ~elems.ok THEN DecErr(elems.cache, elems.cut)
        ELSE DecOk(VArrCut(Max(arrayLength, 0), elems.items),
                   IF arrayLength = NaN THEN NaN ELSE currentOffset + arrayLength * 32,
                   elems.cache, elems.cut \/ isCut)
      Static(arrayLength, currentOffset, rounds, isCut, elems, beyond) ==
        IF ~elems.ok THEN DecErr(elems.cache, elems.cut)
        ELSE IF isCut /\ beyond THEN DecErr(elems.cache, TRUE)
        ELSE DecOk(VArrCut(Max(arrayLength, 0), elems.items),
                   IF arrayLength = NaN THEN currentOffset
                   ELSE elems.nextOffset + (arrayLength - rounds) * 32,
                   elems.cache, elems.cut \/ isCut)
      Elements(arrayLength, currentOffset, rounds, beyond) ==
        IF Decoder_isDynamicType(baseType)
        THEN Dynamic(arrayLength, currentOffset, arrayLength # NaN /\ arrayLength > rounds,
                     decodeDynamicElements(baseType, buffer, currentOffset,
                                           IF isDynamic THEN (offset \div 32) * 32 ELSE 0,
                                           0, rounds, cache))
        ELSE Static(arrayLength, currentOffset, rounds,
                    arrayLength # NaN /\ arrayLength > rounds,
                    decodeStaticElements(baseType, buffer, currentOffset, 0, rounds, cache),
                    beyond)
      Length(arrayLength, currentOffset, beyond) ==
        Elements(arrayLength, currentOffset,
                 IF arrayLength = NaN THEN 0 ELSE Min(arrayLength, IterCap(buffer)),
                 beyond)
      Start(start, beyond) ==
        Length(IF isFixedSize THEN fixedSize ELSE NumberAt(buffer, start),
               IF isFixedSize THEN start ELSE start + 32,
               beyond)
  IN Start(IF isDynamic THEN NumberAt(buffer, offset) ELSE offset,
           ~_decodeBasicType(baseType, buffer, Len(buffer)).ok)

\* first pass of decodeTuple from component i on: the static fields are
\* decoded, the dynamic ones collected with their absolute offsets
decodeStaticFields(components, buffer, offset, i, currentOffset, result, cache) ==
  LET component == components[i]
      fieldName == FieldName(component, i - 1)
      Collect(relativeOffset, rest) ==
        [rest EXCEPT !.dynamicOffsets =
           <<[offset |-> offset + relativeOffset, fieldName |-> fieldName,
              component |-> component]>> \o @]
      Or(cut, rest) == [rest EXCEPT !.cut = @ \/ cut]
      Static(decoded) ==
        IF ~decoded.ok
        THEN [ok |-> FALSE, result |-> result, dynamicOffsets |-> <<>>,
              nextOffset |-> currentOffset, cache |-> decoded.cache, cut |-> decoded.cut]
        ELSE Or(decoded.cut,
                decodeStaticFields(components, buffer, offset, i + 1, decoded.nextOffset,
                                   ObjSet(result, fieldName, decoded.value), decoded.cache))
  IN IF i > Len(components)
     THEN [ok |-> TRUE, result |-> result, dynamicOffsets |-> <<>>,
           nextOffset |-> currentOffset, cache |-> cache, cut |-> FALSE]
     ELSE IF Decoder_isDynamicType(component)
     THEN Collect(NumberAt(buffer, currentOffset),
                  decodeStaticFields(components, buffer, offset, i + 1,
                                     currentOffset + 32, result, cache))
     ELSE Static(decodeParameter(component, buffer, currentOffset, cache))

\* second pass of decodeTuple
decodeDynamicFields(dynamicOffsets, buffer, result, cache) ==
  LET dynamicInfo == dynamicOffsets[1]
      Or(cut, rest) == [rest EXCEPT !.cut = @ \/ cut]
      Dynamic(decoded) ==
        IF ~decoded.ok
        THEN [ok |-> FALSE, result |-> result, cache |-> decoded.cache, cut |-> decoded.cut]
        ELSE Or(decoded.cut,
                decodeDynamicFields(Tail(dynamicOffsets), buffer,
                                    ObjSet(result, dynamicInfo.fieldName, decoded.value),
                                    decoded.cache))
  IN IF dynamicOffsets = <<>>
     THEN [ok |-> TRUE, result |-> result, cache |-> cache, cut |-> FALSE]
     ELSE Dynamic(decodeParameter(dynamicInfo.component, buffer, dynamicInfo.offset, cache))

decodeTuple(type, buffer, offset, cache) ==
  LET Second(first, second) ==
        IF ~second.ok THEN DecErr(second.cache, first.cut \/ second.cut)
        ELSE DecOk(second.result, first.nextOffset, second.cache, first.cut \/ second.cut)
      First(first) ==
        IF ~first.ok THEN DecErr(first.cache, first.cut)
        ELSE Second(first, decodeDynamicFields(first.dynamicOffsets, buffer,
                                               first.result, first.cache))
  IN IF type.js = "object" /\ type.components # <<>>
     THEN First(decodeStaticFields(type.components, buffer, offset, 1, offset,
                                   VObj(<<>>, <<>>), cache))
     ELSE DecErr(cache, FALSE)

\* decodeParameter as it would be if it did not look into the cache and
\* stored every result over the one it has
decodeParameterOverwriting(type, buffer, offset, cache) ==
  LET cacheKey == [type |-> type, offset |-> offset, length |-> Len(buffer)]
      typeStr == TypeStrOf(type)
      Basic(basic) == [ok |-> basic.ok, value |-> basic.value,
                       nextOffset |-> basic.nextOffset, cache |-> cache, cut |-> FALSE]
      Store(result) ==
        IF ~result.ok THEN result
        ELSE [result EXCEPT !.cache = (cacheKey :>
                [value |-> result.value, nextOffset |-> result.nextOffset]) @@ @]
  IN Store(IF HasBracket(typeStr) THEN decodeArray(typeStr, buffer, offset, cache)
           ELSE IF StartsWithTuple(typeStr) THEN decodeTuple(type, buffer, offset, cache)
           ELSE Basic(_decodeBasicType(typeStr, buffer, offset)))

decodeParameter(type, buffer, offset, cache) ==
  LET cacheKey == [type |-> type, offset |-> offset, length |-> Len(buffer)]
      typeStr == TypeStrOf(type)
      Basic(basic) == [ok |-> basic.ok, value |-> basic.value,
                       nextOffset |-> basic.nextOffset, cache |-> cache, cut |-> FALSE]
      Store(result) ==
        IF ~result.ok THEN result
        ELSE IF Cardinality(DOMAIN result.cache) < CacheLimit
             THEN [result EXCEPT !.cache = @ @@ (cacheKey :>
                     [value |-> result.value, nextOffset |-> result.nextOffset])]
             ELSE result
  IN IF cacheKey \in DOMAIN cache
     THEN DecOk(cache[cacheKey].value, cache[cacheKey].nextOffset, cache, FALSE)
     ELSE Store(IF HasBracket(typeStr) THEN decodeArray(typeStr, buffer, offset, cache)
                ELSE IF StartsWithTuple(typeStr) THEN decodeTuple(type, buffer, offset, cache)
                ELSE Basic(_decodeBasicType(typeStr, buffer, offset)))

\* the loop of decodeParameters from parameter i on
RECURSIVE decodeFrom(_, _, _, _)
decodeFrom(types, buffer, i, cache) ==
  LET currentType == types[i]
      staticOffset == (i - 1) * 32
      Join(decoded, rest) ==
        [ok |-> rest.ok, values |-> <<decoded.value>> \o rest.values,
         cache |-> rest.cache, cut |-> decoded.cut \/ rest.cut]
      Push(decoded) ==
        IF ~decoded.ok
        THEN [ok |-> FALSE, values |-> <<>>, cache |-> decoded.cache, cut |-> decoded.cut]
        ELSE Join(decoded, decodeFrom(types, buffer, i + 1, decoded.cache))
  IN IF i > Len(types) THEN [ok |-> TRUE, values |-> <<>>, cache |-> cache, cut |-> FALSE]
     ELSE Push(decodeParameter(currentType, buffer,
                               IF Decoder_isDynamicType(currentType)
                               THEN NumberAt(buffer, staticOffset) ELSE staticOffset,
                               cache))

\* returns [ok, values, cache, cut]: the array returned, or ok = FALSE when
\* the call throws; data is the hex string after "0x"
decodeParameters(types, data, cache) ==
  LET Values(r) == IF r.ok THEN r ELSE [r EXCEPT !.values = <<>>]
  IN IF data = <<>>
     THEN [ok |-> TRUE, values |-> SeqOf([i \in 1..Len(types) |-> VNull], Len(types)),
           cache |-> cache, cut |-> FALSE]
     ELSE IF ~hexToBuffer(data).ok
     THEN [ok |-> FALSE, values |-> <<>>, cache |-> cache, cut |-> FALSE]
     ELSE Values(decodeFrom(types, hexToBuffer(data).buf, 1, cache))

\* ------------------------------------------------------------------------
\* crypto-utils.js and utils.js: signatures and selectors
\* ------------------------------------------------------------------------

VUndefined == [js |-> "undefined"]

\* a parameter of an event, with its indexed flag
TEv(name, type, indexed) ==
  [js |-> "object", name |-> name, type |-> type, components |-> <<>>, indexed |-> indexed]

\* the characters of a type string
TypeText(t) ==
  LET RECURSIVE dimsText(_)
      dimsText(d) == IF d = <<>> THEN ""
                     ELSE (IF d[1] = -1 THEN "[]" ELSE "[" \o ToString(d[1]) \o "]")
                            \o dimsText(Tail(d))
  IN t.k \o (IF t.n = -1 THEN "" ELSE ToString(t.n)) \o dimsText(t.dims)

\* `${item.name}:${item.inputs.map(i => i.type).join(',')}`
SelectorKey(item) ==
  LET RECURSIVE join(_)
      join(i) == IF i > Len(item.inputs) THEN ""
                 ELSE (IF i > 1 THEN "," ELSE "") \o TypeText(item.inputs[i].type) \o join(i + 1)
  IN item.name \o ":" \o join(1)

\* the digest, as 64 hex digits, of the UTF-8 bytes of each signature the
\* descriptors of this module have
KeccakTable ==
  "transfer(address,uint256)" :>
    <<10, 9, 0, 5, 9, 12, 11, 11, 2, 10, 11, 0, 9, 14, 11, 2, 1, 9, 5, 8, 3, 15, 4, 10, 5, 9, 10, 5, 13, 0, 6, 2,
      3, 10, 13, 14, 3, 4, 6, 13, 9, 6, 2, 11, 12, 13, 4, 14, 4, 6, 11, 1, 1, 13, 10, 0, 4, 7, 12, 9, 0, 4, 9, 11>> @@
  "totalSupply()" :>
    <<1, 8, 1, 6, 0, 13, 13, 13, 7, 15, 1, 5, 12, 7, 2, 5, 2, 8, 12, 2, 15, 9, 4, 15, 13, 8, 13, 15, 14, 3, 12, 8,
      13, 5, 10, 10, 2, 6, 14, 2, 12, 5, 0, 12, 7, 13, 8, 1, 15, 4, 11, 12, 7, 11, 14, 14, 8, 13, 4, 11, 7, 9, 3, 2>> @@
  "balanceOf(address)" :>
    <<7, 0, 10, 0, 8, 2, 3, 1, 11, 9, 8, 14, 15, 4, 12, 10, 2, 6, 8, 12, 9, 12, 12, 3, 15, 6, 11, 4, 5, 9, 0, 14,
      4, 11, 15, 14, 12, 2, 8, 2, 8, 0, 13, 11, 0, 6, 11, 11, 5, 13, 4, 5, 14, 6, 8, 9, 15, 2, 10, 3, 6, 0, 11, 14>> @@
  "Transfer(address,address,uint256)" :>
    <<13, 13, 15, 2, 5, 2, 10, 13, 1, 11, 14, 2, 12, 8, 9, 11, 6, 9, 12, 2, 11, 0, 6, 8, 15, 12, 3, 7, 8, 13, 10, 10,
      9, 5, 2, 11, 10, 7, 15, 1, 6, 3, 12, 4, 10, 1, 1, 6, 2, 8, 15, 5, 5, 10, 4, 13, 15, 5, 2, 3, 11, 3, 14, 15>> @@
  "Approval(address,address,uint256)" :>
    <<8, 12, 5, 11, 14, 1, 14, 5, 14, 11, 14, 12, 7, 13, 5, 11, 13, 1, 4, 15, 7, 1, 4, 2, 7, 13, 1, 14, 8, 4, 15, 3,
      13, 13, 0, 3, 1, 4, 12, 0, 15, 7, 11, 2, 2, 9, 1, 14, 5, 11, 2, 0, 0, 10, 12, 8, 12, 7, 12, 3, 11, 9, 2, 5>> @@
  "Mint(address,uint256,uint256)" :>
    <<4, 12, 2, 0, 9, 11, 5, 15, 12, 8, 10, 13, 5, 0, 7, 5, 8, 15, 1, 3, 14, 2, 14, 1, 0, 8, 8, 11, 10, 5, 6, 10,
      5, 6, 0, 13, 15, 15, 6, 9, 0, 10, 1, 12, 6, 15, 14, 15, 2, 6, 3, 9, 4, 15, 4, 12, 0, 3, 8, 2, 1, 12, 4, 15>> @@
  "batch(uint256[])" :>
    <<2, 9, 11, 10, 1, 6, 2, 9, 7, 8, 6, 5, 2, 14, 4, 4, 14, 8, 12, 14, 14, 3, 1, 4, 2, 14, 2, 9, 13, 14, 8, 12,
      1, 14, 2, 9, 10, 1, 14, 15, 13, 15, 9, 3, 11, 10, 14, 15, 11, 13, 3, 12, 5, 11, 15, 3, 2, 12, 0, 12, 9, 14, 6, 3>> @@
  "submit(tuple)" :>
    <<5, 13, 9, 10, 10, 7, 12, 12, 13, 8, 9, 6, 11, 9, 4, 15, 4, 14, 4, 11, 5, 6, 10, 12, 7, 6, 8, 10, 2, 1, 4, 4,
      6, 12, 7, 6, 0, 9, 8, 9, 3, 0, 12, 15, 8, 15, 3, 1, 13, 6, 1, 15, 7, 1, 1, 11, 1, 6, 13, 9, 12, 4, 2, 6>> @@
  "submit(tuple[])" :>
    <<0, 4, 15, 7, 1, 7, 5, 1, 10, 7, 2, 15, 10, 0, 1, 9, 1, 0, 3, 6, 3, 10, 7, 13, 14, 10, 1, 6, 2, 11, 9, 3,
      1, 1, 3, 13, 3, 8, 1, 3, 6, 2, 2, 3, 0, 8, 13, 6, 12, 5, 13, 8, 3, 9, 5, 2, 9, 13, 5, 3, 11, 3, 14, 4>> @@
  "PairCreated(address,address,address,uint256)" :>
    <<0, 13, 3, 6, 4, 8, 11, 13, 0, 15, 6, 11, 10, 8, 0, 1, 3, 4, 10, 3, 3, 11, 10, 9, 2, 7, 5, 10, 12, 5, 8, 5,
      13, 9, 13, 3, 1, 5, 15, 0, 10, 13, 8, 3, 5, 5, 12, 13, 13, 14, 15, 13, 14, 3, 1, 10, 15, 10, 2, 8, 13, 0, 14, 9>>

\* keccak256(toUtf8Bytes(signature)) after its "0x"
keccak256(signature) == KeccakTable[signature]

getBaseCanonicalType(type) ==
  IF IsName(type, "tuple") THEN "tuple"
  ELSE IF IsName(type, "uint") THEN "uint256"
  ELSE IF IsName(type, "int") THEN "int256"
  ELSE TypeText(type)

\* getCanonicalType as it would be if it wrote the name of the parameter
\* after its type
getCanonicalTypeNamed(param, typeCache) ==
  [value |-> TypeText(param.type) \o " " \o param.name, typeCache |-> typeCache]

\* returns [value, typeCache]; the key is JSON.stringify(param)
getCanonicalType(param, typeCache) ==
  LET type == param.type
      Put(result) == [value |-> result, typeCache |-> typeCache @@ (param :> result)]
  IN IF param \in DOMAIN typeCache THEN [value |-> typeCache[param], typeCache |-> typeCache]
     ELSE Put(IF HasBracket(type)
              THEN getBaseCanonicalType(TStr(type.k, type.n, Front(type.dims)))
                     \o TypeText(TStr("", -1, <<type.dims[Len(type.dims)]>>))
              ELSE getBaseCanonicalType(type))

\* inputs.map(input => getCanonicalType(input)).join(','), from input i on
RECURSIVE CanonicalInputs(_, _, _)
CanonicalInputs(inputs, i, typeCache) ==
  LET Join(first, rest) ==
        [value |-> (IF i > 1 THEN "," ELSE "") \o first.value \o rest.value,
         typeCache |-> rest.typeCache]
      Then(first) == Join(first, CanonicalInputs(inputs, i + 1, first.typeCache))
  IN IF i > Len(inputs) THEN [value |-> "", typeCache |-> typeCache]
     ELSE Then(getCanonicalType(inputs[i], typeCache))

\* The functions below take the three module-level caches as the record
\* u = [selectorCache, signatureCache, typeCache] and return [value, u].

getFunctionSignature(func, u) ==
  LET cacheKey == SelectorKey(func)
      Put(inputs, signature) ==
        [value |-> signature,
         u |-> [u EXCEPT !.typeCache = inputs.typeCache,
                         !.signatureCache = @ @@ (cacheKey :> signature)]]
      Sign(inputs) == Put(inputs, func.name \o "(" \o inputs.value \o ")")
  IN IF cacheKey \in DOMAIN u.signatureCache
     THEN [value |-> u.signatureCache[cacheKey], u |-> u]
     ELSE Sign(CanonicalInputs(func.inputs, 1, u.typeCache))

getEventSignature(event, u) ==
  LET cacheKey == SelectorKey(event)
      Put(inputs, signature) ==
        [value |-> signature,
         u |-> [u EXCEPT !.typeCache = inputs.typeCache,
                         !.signatureCache = @ @@ (cacheKey :> signature)]]
      Sign(inputs) == Put(inputs, event.name \o "(" \o inputs.value \o ")")
  IN IF cacheKey \in DOMAIN u.signatureCache
     THEN [value |-> u.signatureCache[cacheKey], u |-> u]
     ELSE Sign(CanonicalInputs(event.inputs, 1, u.typeCache))

getFunctionSelector(func, u) ==
  LET cacheKey == SelectorKey(func)
      Put(signature, selector) ==
        [value |-> selector,
         u |-> [signature.u EXCEPT !.selectorCache = @ @@ (cacheKey :> selector)]]
      Hash(signature) == Put(signature, Slice(keccak256(signature.value), 0, 8))
  IN IF cacheKey \in DOMAIN u.selectorCache
     THEN [value |-> u.selectorCache[cacheKey], u |-> u]
     ELSE Hash(getFunctionSignature(func, u))

getEventSelector(event, u) ==
  LET cacheKey == SelectorKey(event)
      Put(signature, selector) ==
        [value |-> selector,
         u |-> [signature.u EXCEPT !.selectorCache = @ @@ (cacheKey :> selector)]]
      Hash(signature) == Put(signature, keccak256(signature.value))
  IN IF cacheKey \in DOMAIN u.selectorCache
     THEN [value |-> u.selectorCache[cacheKey], u |-> u]
     ELSE Hash(getEventSignature(event, u))

\* selector-utils: the selector of a raw signature
getFunctionSelectorFromSignature(signature) == Slice(keccak256(signature), 0, 8)

\* ------------------------------------------------------------------------
\* decoder.js: event logs
\* ------------------------------------------------------------------------

\* input.indexed, which a descriptor may lack
IsIndexed(input) == "indexed" \in DOMAIN input /\ input.indexed

\* the loop of decodeLog over the indexed parameters, from the i-th on;
\* returns [ok, args, cache, cut]
RECURSIVE decodeIndexed(_, _, _, _, _)
decodeIndexed(indexedParams, topics, i, args, cache) ==
  LET param == indexedParams[i]
      topic == topics[i + 1]
      Or(cut, rest) == [rest EXCEPT !.cut = @ \/ cut]
      Set(decoded) ==
        IF ~decoded.ok
        THEN [ok |-> FALSE, args |-> args, cache |-> decoded.cache, cut |-> decoded.cut]
        ELSE Or(decoded.cut,
                decodeIndexed(indexedParams, topics, i + 1,
                              ObjSet(args, param.name, decoded.value), decoded.cache))
  IN IF i > Len(indexedParams) THEN [ok |-> TRUE, args |-> args, cache |-> cache, cut |-> FALSE]
     ELSE IF i + 1 > Len(topics) THEN decodeIndexed(indexedParams, topics, i + 1, args, cache)
     ELSE IF Decoder_isDynamicType(param.type)
     THEN decodeIndexed(indexedParams, topics, i + 1,
                        ObjSet(args, param.name, VHex(topic)), cache)
     ELSE IF ~hexToBuffer(topic).ok
     THEN [ok |-> FALSE, args |-> args, cache |-> cache, cut |-> FALSE]
     ELSE Set(decodeParameter(param.type, hexToBuffer(topic).buf, 0, cache))

\* the second half of decodeLog: the parameters that are not indexed are
\* decoded from data and set on the args that first, the result of the loop
\* over the indexed ones, holds; returns [ok, value, cache, cut]
decodeData(eventAbi, data, first) ==
  LET nonIndexedParams == SelectSeq(eventAbi.inputs, LAMBDA input : ~IsIndexed(input))
      types == SeqOf([i \in 1..Len(nonIndexedParams) |-> nonIndexedParams[i].type],
                     Len(nonIndexedParams))
      RECURSIVE Assign(_, _, _)
      Assign(i, args, decodedData) ==
        IF i > Len(nonIndexedParams) THEN args
        ELSE Assign(i + 1, ObjSet(args, nonIndexedParams[i].name, decodedData[i]),
                    decodedData)
      Result(decodedData) ==
        IF ~decodedData.ok
        THEN [ok |-> FALSE, value |-> VNull, cache |-> decodedData.cache,
              cut |-> first.cut \/ decodedData.cut]
        ELSE [ok |-> TRUE,
              value |-> [name |-> eventAbi.name,
                         args |-> Assign(1, first.args, decodedData.values)],
              cache |-> decodedData.cache, cut |-> first.cut \/ decodedData.cut]
  IN IF ~first.ok THEN [ok |-> FALSE, value |-> VNull, cache |-> first.cache, cut |-> first.cut]
     ELSE IF nonIndexedParams # <<>> /\ data # <<>>
     THEN Result(decodeParameters(types, data, first.cache))
     ELSE [ok |-> TRUE, value |-> [name |-> eventAbi.name, args |-> first.args],
           cache |-> first.cache, cut |-> first.cut]

\* decodeLog as it would be if it threw when a topic of an indexed
\* parameter, or the data of the others, is not there
Decoder_decodeLogStrict(eventAbi, data, topics, cache) ==
  IF \/ Len(topics) < 1 + Len(SelectSeq(eventAbi.inputs, IsIndexed))
     \/ data = <<>>
  THEN [ok |-> FALSE, value |-> VNull, cache |-> cache, cut |-> FALSE]
  ELSE decodeData(eventAbi, data,
                  decodeIndexed(SelectSeq(eventAbi.inputs, IsIndexed), topics, 1,
                                VObj(<<>>, <<>>), cache))

\* returns [ok, value, cache, cut], value being { name, args }
Decoder_decodeLog(eventAbi, data, topics, cache) ==
  decodeData(eventAbi, data,
             decodeIndexed(SelectSeq(eventAbi.inputs, IsIndexed), topics, 1,
                           VObj(<<>>, <<>>), cache))

\* ------------------------------------------------------------------------
\* abi-codec.js
\* ------------------------------------------------------------------------

\* the keys of the maps functions and events: a name or a "0x" string
KeyOfName(name) == [name |-> name]
KeyOfHex(hex)   == [hex |-> hex]

\* map.set(key, value)
MapSet(map, key, value) == [k \in DOMAIN map \cup {key} |-> IF k = key THEN value ELSE map[k]]

RECURSIVE _compileFunctions(_, _, _, _)
_compileFunctions(abi, i, functions, u) ==
  LET item == abi[i]
      Set(selector) ==
        _compileFunctions(abi, i + 1,
                          MapSet(MapSet(functions, KeyOfHex(selector.value), item),
                                 KeyOfName(item.name), item),
                          selector.u)
  IN IF i > Len(abi) THEN [functions |-> functions, u |-> u]
     ELSE IF item.type = "function" THEN Set(getFunctionSelector(item, u))
     ELSE _compileFunctions(abi, i + 1, functions, u)

RECURSIVE _compileEvents(_, _, _, _)
_compileEvents(abi, i, events, u) ==
  LET item == abi[i]
      Set(selector) ==
        _compileEvents(abi, i + 1,
                       MapSet(MapSet(events, KeyOfHex(selector.value), item),
                              KeyOfName(item.name), item),
                       selector.u)
  IN IF i > Len(abi) THEN [events |-> events, u |-> u]
     ELSE IF item.type = "event" THEN Set(getEventSelector(item, u))
     ELSE _compileEvents(abi, i + 1, events, u)

\* new ABICodec(abi) for an ABI given as an array: returns [codec, u]
ABICodec(abi, u) ==
  LET Make(functions, events) ==
        [codec |-> [abi |-> abi, functions |-> functions.functions,
                    events |-> events.events, encoder |-> <<>>, decoder |-> <<>>],
         u |-> events.u]
      Events(functions) == Make(functions, _compileEvents(abi, 1, <<>>, functions.u))
  IN Events(_compileFunctions(abi, 1, <<>>, u))

\* returns [ok, hex, codec, u, error]; error is "" when the call returns,
\* and else tells what threw: the beginning of the message of the Error
\* thrown here, or the encoder or the decoder
encodeFunction(codec, nameOrSelector, params, u) ==
  LET func == codec.functions[nameOrSelector]
      Put(selector, encoded) ==
        [ok |-> encoded.ok,
         hex |-> IF encoded.ok THEN selector.value \o encoded.hex ELSE <<>>,
         codec |-> [codec EXCEPT !.encoder = encoded.cache],
         u |-> selector.u,
         error |-> IF encoded.ok THEN "" ELSE "thrown by the encoder"]
  IN IF nameOrSelector \notin DOMAIN codec.functions
     THEN [ok |-> FALSE, hex |-> <<>>, codec |-> codec, u |-> u,
           error |-> "Function not found"]
     ELSE Put(getFunctionSelector(func, u),
              encodeParameters(func.inputs, params, codec.encoder))

\* returns [ok, values, codec, cut, error]
decodeFunction(codec, nameOrSelector, data) ==
  LET func == codec.functions[nameOrSelector]
      paramData == SliceFrom(data, 8)
      Put(decoded) ==
        [ok |-> decoded.ok, values |-> decoded.values,
         codec |-> [codec EXCEPT !.decoder = decoded.cache], cut |-> decoded.cut,
         error |-> IF decoded.ok THEN "" ELSE "thrown by the decoder"]
  IN IF nameOrSelector \notin DOMAIN codec.functions
     THEN [ok |-> FALSE, values |-> <<>>, codec |-> codec, cut |-> FALSE,
           error |-> "Function not found"]
     ELSE Put(decodeParameters(func.inputs, paramData, codec.decoder))

decodeFunctionResult(codec, nameOrSelector, data) ==
  LET func == codec.functions[nameOrSelector]
      outputs == IF "outputs" \in DOMAIN func THEN func.outputs ELSE <<>>
      Put(decoded) ==
        [ok |-> decoded.ok, values |-> decoded.values,
         codec |-> [codec EXCEPT !.decoder = decoded.cache], cut |-> decoded.cut,
         error |-> IF decoded.ok THEN "" ELSE "thrown by the decoder"]
  IN IF nameOrSelector \notin DOMAIN codec.functions
     THEN [ok |-> FALSE, values |-> <<>>, codec |-> codec, cut |-> FALSE,
           error |-> "Function not found"]
     ELSE Put(decodeParameters(outputs, data, codec.decoder))

\* decodeLog as it would be if the event were looked up by topics[0] when
\* the name given is not registered
ABICodec_decodeLogByTopic(codec, data, topics, nameOrTopic0) ==
  LET key == IF nameOrTopic0 # VUndefined /\ nameOrTopic0 \in DOMAIN codec.events
             THEN nameOrTopic0
             ELSE IF topics # <<>> THEN KeyOfHex(topics[1])
             ELSE VUndefined
      Put(decoded) ==
        [ok |-> decoded.ok, value |-> decoded.value,
         codec |-> [codec EXCEPT !.decoder = decoded.cache], cut |-> decoded.cut,
         error |-> IF decoded.ok THEN "" ELSE "thrown by the decoder"]
  IN IF key \notin DOMAIN codec.events
     THEN [ok |-> FALSE, value |-> VNull, codec |-> codec, cut |-> FALSE,
           error |-> "Event not found"]
     ELSE Put(Decoder_decodeLog(codec.events[key], data, topics, codec.decoder))

\* returns [ok, value, codec, cut, error]; nameOrTopic0 is a key or undefined
ABICodec_decodeLog(codec, data, topics, nameOrTopic0) ==
  LET key == IF nameOrTopic0 # VUndefined THEN nameOrTopic0
             ELSE IF topics # <<>> THEN KeyOfHex(topics[1])
             ELSE VUndefined
      Put(decoded) ==
        [ok |-> decoded.ok, value |-> decoded.value,
         codec |-> [codec EXCEPT !.decoder = decoded.cache], cut |-> decoded.cut,
         error |-> IF decoded.ok THEN "" ELSE "thrown by the decoder"]
  IN IF key \notin DOMAIN codec.events
     THEN [ok |-> FALSE, value |-> VNull, codec |-> codec, cut |-> FALSE,
           error |-> "Event not found"]
     ELSE Put(Decoder_decodeLog(codec.events[key], data, topics, codec.decoder))

\* decodeReceiptLogs as it would be without its try and catch: the loop
\* ends at the first log whose decoding throws, and nothing is returned
RECURSIVE decodeReceiptLogsUntilThrow(_, _, _)
decodeReceiptLogsUntilThrow(codec, logs, i) ==
  LET log == logs[i + 1]
      Push(decoded, rest) ==
        IF ~rest.ok THEN rest
        ELSE [rest EXCEPT !.value =
                <<[name |-> decoded.value.name, args |-> decoded.value.args,
                   logIndex |-> i, address |-> log.address,
                   blockHash |-> log.blockHash, blockNumber |-> log.blockNumber,
                   transactionHash |-> log.transactionHash,
                   transactionIndex |-> log.transactionIndex,
                   removed |-> log.removed]>> \o @]
      Then(decoded) ==
        IF ~decoded.ok
        THEN [ok |-> FALSE, value |-> <<>>, codec |-> [codec EXCEPT !.decoder = decoded.cache]]
        ELSE Push(decoded,
                  decodeReceiptLogsUntilThrow([codec EXCEPT !.decoder = decoded.cache],
                                              logs, i + 1))
  IN IF i >= Len(logs) THEN [ok |-> TRUE, value |-> <<>>, codec |-> codec]
     ELSE IF "topics" \notin DOMAIN log \/ log.topics = <<>>
     THEN decodeReceiptLogsUntilThrow(codec, logs, i + 1)
     ELSE IF KeyOfHex(log.topics[1]) \notin DOMAIN codec.events
     THEN decodeReceiptLogsUntilThrow(codec, logs, i + 1)
     ELSE Then(Decoder_decodeLog(codec.events[KeyOfHex(log.topics[1])], log.data, log.topics,
                                 codec.decoder))

\* the loop of decodeReceiptLogs from log i on (i counts from 0, as logIndex)
RECURSIVE decodeReceiptLogsFrom(_, _, _)
decodeReceiptLogsFrom(codec, logs, i) ==
  LET log == logs[i + 1]
      Push(decoded, rest) ==
        IF ~decoded.ok THEN rest
        ELSE [rest EXCEPT !.value =
                <<[name |-> decoded.value.name, args |-> decoded.value.args,
                   logIndex |-> i, address |-> log.address,
                   blockHash |-> log.blockHash, blockNumber |-> log.blockNumber,
                   transactionHash |-> log.transactionHash,
                   transactionIndex |-> log.transactionIndex,
                   removed |-> log.removed]>> \o @]
      Then(decoded) ==
        Push(decoded,
             decodeReceiptLogsFrom([codec EXCEPT !.decoder = decoded.cache], logs, i + 1))
  IN IF i >= Len(logs) THEN [value |-> <<>>, codec |-> codec]
     ELSE IF "topics" \notin DOMAIN log \/ log.topics = <<>>
     THEN decodeReceiptLogsFrom(codec, logs, i + 1)
     ELSE IF KeyOfHex(log.topics[1]) \notin DOMAIN codec.events
     THEN decodeReceiptLogsFrom(codec, logs, i + 1)
     ELSE Then(Decoder_decodeLog(codec.events[KeyOfHex(log.topics[1])], log.data, log.topics,
                                 codec.decoder))

\* returns [value, codec]
decodeReceiptLogs(codec, receipt) ==
  IF "logs" \notin DOMAIN receipt THEN [value |-> <<>>, codec |-> codec]
  ELSE decodeReceiptLogsFrom(codec, receipt.logs, 0)

\* ------------------------------------------------------------------------
\* log-decoder.js
\* ------------------------------------------------------------------------

Address == TStr("address", -1, <<>>)
Uint256 == TStr("uint", 256, <<>>)

COMMON_EVENT_ABIS(eventType) ==
  CASE eventType = "ERC20_TRANSFER" ->
         <<[type |-> "event", name |-> "Transfer",
            inputs |-> <<TEv("from", Address, TRUE), TEv("to", Address, TRUE),
                         TEv("value", Uint256, FALSE)>>]>>
    [] eventType = "UNISWAP_V2_MINT" ->
         <<[type |-> "event", name |-> "Mint",
            inputs |-> <<TEv("sender", Address, TRUE), TEv("amount0", Uint256, FALSE),
                         TEv("amount1", Uint256, FALSE)>>]>>
    [] eventType = "UNISWAP_V2_PAIR_CREATED" ->
         <<[type |-> "event", name |-> "PairCreated",
            inputs |-> <<TEv("token0", Address, TRUE), TEv("token1", Address, TRUE),
                         TEv("pair", Address, FALSE), TEv("", Uint256, FALSE)>>]>>

\* the three literals of EVENT_SIGNATURES: they are the digests of the
\* signatures of the three events above
EVENT_SIGNATURES(name) ==
  CASE name = "TRANSFER" -> KeccakTable["Transfer(address,address,uint256)"]
    [] name = "MINT" -> KeccakTable["Mint(address,uint256,uint256)"]
    [] name = "PAIR_CREATED" -> KeccakTable["PairCreated(address,address,address,uint256)"]

\* this.signatureToType.get(topic0), "" standing for undefined
signatureToType(topic0) ==
  CASE topic0 = EVENT_SIGNATURES("TRANSFER") -> "ERC20_TRANSFER"
    [] topic0 = EVENT_SIGNATURES("MINT") -> "UNISWAP_V2_MINT"
    [] topic0 = EVENT_SIGNATURES("PAIR_CREATED") -> "UNISWAP_V2_PAIR_CREATED"
    [] OTHER -> ""

\* returns [codec, codecCache, u]
getCodec(eventType, codecCache, u) ==
  LET Put(made) ==
        [codec |-> made.codec, codecCache |-> codecCache @@ (eventType :> made.codec),
         u |-> made.u]
  IN IF eventType \in DOMAIN codecCache
     THEN [codec |-> codecCache[eventType], codecCache |-> codecCache, u |-> u]
     ELSE Put(ABICodec(COMMON_EVENT_ABIS(eventType), u))

\* obj[key], undefined when obj has no such key
ObjGet(obj, key) ==
  IF \E i \in 1..Len(obj.keys) : obj.keys[i] = key
  THEN obj.vals[CHOOSE i \in 1..Len(obj.keys) : obj.keys[i] = key]
  ELSE VUndefined

\* returns [ok, value, codecCache, u]
_decodeCommonEvent(eventType, log, codecCache, u) ==
  LET Put(got, decoded) ==
        [ok |-> decoded.ok, value |-> decoded.value,
         codecCache |-> [got.codecCache EXCEPT ![eventType] = decoded.codec],
         u |-> got.u]
  IN IF eventType = "ERC20_TRANSFER"
     THEN IF Len(log.topics) < 3 \/ log.data = <<>> \/ ~IsHexDigits(log.data)
          THEN [ok |-> FALSE, value |-> VNull, codecCache |-> codecCache, u |-> u]
          ELSE [ok |-> TRUE,
                value |-> [name |-> "Transfer",
                           args |-> VObj(<<"from", "to", "value">>,
                                         <<VHex(ToLowerCase(SliceFrom(log.topics[2], 24))),
                                           VHex(ToLowerCase(SliceFrom(log.topics[3], 24))),
                                           VDec(BigOfNat(NatOfHex(log.data)))>>)],
                codecCache |-> codecCache, u |-> u]
     ELSE Put(getCodec(eventType, codecCache, u),
              ABICodec_decodeLog(getCodec(eventType, codecCache, u).codec,
                                 log.data, log.topics, VUndefined))

\* decoded carries the metadata decodeLogs has set on it
_categorizeDecodedLog(decoded, decodedLogs) ==
  CASE decoded.name = "Transfer" ->
         [decodedLogs EXCEPT !.transfers = Append(@,
            [type |-> "Transfer", contractAddress |-> decoded.contractAddress,
             from |-> ObjGet(decoded.args, "from"), to |-> ObjGet(decoded.args, "to"),
             value |-> ObjGet(decoded.args, "value"),
             blockNumber |-> decoded.blockNumber,
             transactionHash |-> decoded.transactionHash, logIndex |-> decoded.logIndex])]
    [] decoded.name = "Mint" ->
         [decodedLogs EXCEPT !.mints = Append(@,
            [type |-> "Mint", contractAddress |-> decoded.contractAddress,
             sender |-> ObjGet(decoded.args, "sender"),
             amount0 |-> ObjGet(decoded.args, "amount0"),
             amount1 |-> ObjGet(decoded.args, "amount1"),
             blockNumber |-> decoded.blockNumber,
             transactionHash |-> decoded.transactionHash, logIndex |-> decoded.logIndex])]
    [] decoded.name = "PairCreated" ->
         [decodedLogs EXCEPT !.pairCreated = Append(@,
            [type |-> "PairCreated", contractAddress |-> decoded.contractAddress,
             token0 |-> ObjGet(decoded.args, "token0"),
             token1 |-> ObjGet(decoded.args, "token1"),
             pair |-> ObjGet(decoded.args, "pair"),
             pairIndex |-> ObjGet(decoded.args, "3"),
             blockNumber |-> decoded.blockNumber,
             transactionHash |-> decoded.transactionHash, logIndex |-> decoded.logIndex])]
    [] OTHER -> decodedLogs

\* an array argument is [js |-> "array", items]; a receipt is a record with
\* the field logs; a log is a record without it
LogsToProcess(receipts) ==
  IF "items" \in DOMAIN receipts
  THEN IF receipts.items # <<>> /\ "logs" \in DOMAIN receipts.items[1]
       THEN LET RECURSIVE flat(_)
                flat(i) == IF i > Len(receipts.items) THEN <<>>
                           ELSE (IF "logs" \in DOMAIN receipts.items[i]
                                 THEN receipts.items[i].logs ELSE <<>>) \o flat(i + 1)
            IN flat(1)
       ELSE receipts.items
  ELSE IF "logs" \in DOMAIN receipts THEN receipts.logs
  ELSE <<receipts>>

\* the loop of decodeLogs from log i on; no custom ABI is registered, so
\* _tryCustomCodecs returns null
RECURSIVE decodeLogsFrom(_, _, _, _, _)
decodeLogsFrom(logs, i, decodedLogs, codecCache, u) ==
  LET log == logs[i]
      eventType == signatureToType(log.topics[1])
      Then(decoded) ==
        IF ~decoded.ok
        THEN decodeLogsFrom(logs, i + 1, decodedLogs, decoded.codecCache, decoded.u)
        ELSE decodeLogsFrom(logs, i + 1,
               _categorizeDecodedLog(
                 [name |-> decoded.value.name, args |-> decoded.value.args,
                  contractAddress |-> log.address, blockNumber |-> log.blockNumber,
                  transactionHash |-> log.transactionHash, logIndex |-> log.logIndex,
                  removed |-> log.removed],
                 decodedLogs),
               decoded.codecCache, decoded.u)
  IN IF i > Len(logs) THEN [value |-> decodedLogs, codecCache |-> codecCache, u |-> u]
     ELSE IF "topics" \notin DOMAIN log THEN decodeLogsFrom(logs, i + 1, decodedLogs, codecCache, u)
     ELSE IF log.topics = <<>> THEN decodeLogsFrom(logs, i + 1, decodedLogs, codecCache, u)
     ELSE IF eventType = "" THEN decodeLogsFrom(logs, i + 1, decodedLogs, codecCache, u)
     ELSE Then(_decodeCommonEvent(eventType, log, codecCache, u))

\* returns [value, codecCache, u]
decodeLogs(receipts, codecCache, u) ==
  decodeLogsFrom(LogsToProcess(receipts), 1,
                 [transfers |-> <<>>, mints |-> <<>>, pairCreated |-> <<>>, custom |-> <<>>],
                 codecCache, u)

\* ------------------------------------------------------------------------
\* State
\* ------------------------------------------------------------------------

VARIABLES
  selectorCache,   \* utils.js: const selectorCache = new Map()
  signatureCache,  \* utils.js: const signatureCache = new Map()
  typeCache,       \* utils.js: const typeCache = new Map()
  codec,           \* the ABICodec instance the caller holds
  codecCache,      \* log-decoder.js: const codecCache = new Map()
  last             \* the last call made, with its arguments and what it returned

vars == <<selectorCache, signatureCache, typeCache, codec, codecCache, last>>

\* the three caches of utils.js as the record the utilities take
U == [selectorCache |-> selectorCache, signatureCache |-> signatureCache,
      typeCache |-> typeCache]

NoCaches == [selectorCache |-> <<>>, signatureCache |-> <<>>, typeCache |-> <<>>]

SetU(u) == /\ selectorCache' = u.selectorCache
           /\ signatureCache' = u.signatureCache
           /\ typeCache' = u.typeCache

\* the modules are loaded and the caller has made new ABICodec([])
Init == /\ selectorCache = <<>>
        /\ signatureCache = <<>>
        /\ typeCache = <<>>
        /\ codec = ABICodec(<<>>, NoCaches).codec
        /\ codecCache = <<>>
        /\ last = [op |-> "none"]

\* ------------------------------------------------------------------------
\* Encoding and decoding with a new Encoder and a new Decoder
\* ------------------------------------------------------------------------

Bool    == TStr("bool", -1, <<>>)
String  == TStr("string", -1, <<>>)
Bytes   == TStr("bytes", -1, <<>>)
Uint256Array == TStr("uint", 256, <<-1>>)

Dec(n) == VDec(BigOfInt(n))

\* the characters of "Hello", "a", "bc" and " a "
Hello == VText(<<72, 101, 108, 108, 111>>)

\* two addresses, the first with capital hex digits
Addr1 == VHex(PadTo(<<1, 2, 3, 16, 17>>, 40))
Addr2 == VHex(PadTo(<<4, 5, 6, 10, 11>>, 40))

\* a struct { uint256 a; bool b } and a struct { uint256 a; string s }
StaticTuple  == TObj("p", TStr("tuple", -1, <<>>),
                     <<TObj("a", Uint256, <<>>), TObj("b", Bool, <<>>)>>)
DynamicTuple == TObj("q", TStr("tuple", -1, <<>>),
                     <<TObj("a", Uint256, <<>>), TObj("s", String, <<>>)>>)

\* pairs of a type and a value well-formed under it
TypedValues ==
  { <<Uint256, Dec(0)>>, <<Uint256, VNum(BigOfInt(300))>>,
    <<Uint256, VBig(Big(FALSE, NatSub(Pow2(256), <<1>>)))>>,
    <<TStr("uint", 8, <<>>), VNum(BigOfInt(255))>>, <<TStr("uint", -1, <<>>), Dec(7)>>,
    <<TStr("int", 256, <<>>), Dec(-1)>>, <<TStr("int", 8, <<>>), VNum(BigOfInt(127))>>,
    <<TStr("int", 8, <<>>), VNum(BigOfInt(-1))>>,
    <<Bool, VBool(TRUE)>>, <<Bool, VBool(FALSE)>>,
    <<Address, Addr1>>, <<Address, Addr2>>,
    <<TStr("bytes", 4, <<>>), VHex(<<1, 2, 3, 4, 10, 11, 12, 13>>)>>,
    <<TStr("bytes", 32, <<>>), VHex(PadTo(<<1, 2>>, 64))>>,
    <<Bytes, VHex(<<>>)>>, <<Bytes, VHex(<<1, 2, 3, 4>>)>>,
    <<Bytes, VHex(PadTo(<<15, 15>>, 66))>>,
    <<String, Hello>>, <<String, VText(<<>>)>>, <<String, VText(<<233>>)>>,
    <<String, VText(<<32, 97, 32>>)>>,
    <<Uint256Array, VArr(<<>>)>>, <<Uint256Array, VArr(<<Dec(7)>>)>>,
    <<Uint256Array, VArr(<<Dec(1), VNum(BigOfInt(2))>>)>>,
    <<Uint256Array, VArr(<<VBig(BigOfInt(5))>>)>>,
    <<TStr("string", -1, <<-1>>), VArr(<<VText(<<97>>), VText(<<98, 99>>)>>)>>,
    <<TStr("address", -1, <<-1>>), VArr(<<Addr2>>)>>,
    <<TStr("uint", 256, <<2>>), VArr(<<Dec(1), Dec(2)>>)>>,
    <<TStr("uint", 256, <<-1, -1>>), VArr(<<VArr(<<Dec(1)>>), VArr(<<Dec(2)>>)>>)>>,
    <<StaticTuple, VObj(<<"a", "b">>, <<Dec(1), VBool(TRUE)>>)>>,
    <<DynamicTuple, VObj(<<"a", "s">>, <<Dec(1), Hello>>)>> }

\* the lists of one parameter, and some lists of two
ParameterLists ==
  { [types |-> <<p[1]>>, values |-> <<p[2]>>] : p \in TypedValues }
  \cup { [types |-> <<p[1], q[1]>>, values |-> <<p[2], q[2]>>] :
           p \in { <<Uint256, Dec(5)>>, <<String, Hello>>,
                   <<TStr("uint", 256, <<2>>), VArr(<<Dec(1), Dec(2)>>)>> },
           q \in { <<Uint256, Dec(6)>>, <<Bytes, VHex(<<1, 2>>)>>, <<Bool, VBool(TRUE)>> } }

\* the widths intN has
IntWidths == { 8 * k : k \in 1..32 }

\* the least and the greatest value of intN, and -1, 0 and 1
IntValues(bits) ==
  { Big(TRUE, Pow2(bits - 1)), BigOfInt(-1), BigOfInt(0), BigOfInt(1),
    Big(FALSE, NatSub(Pow2(bits - 1), <<1>>)) }

\* the caller has chosen what to encode
InitRoundTrip ==
  /\ selectorCache = <<>>
  /\ signatureCache = <<>>
  /\ typeCache = <<>>
  /\ codec = ABICodec(<<>>, NoCaches).codec
  /\ codecCache = <<>>
  /\ last \in { [op |-> "parameters", types |-> p.types, values |-> p.values] :
                  p \in ParameterLists }
              \cup UNION { { [op |-> "int", bits |-> bits, v |-> v] :
                                v \in IntValues(bits) } : bits \in IntWidths }

\* decoder.decodeParameters(types, encoder.encodeParameters(types, values))
RoundTrip ==
  /\ last.op = "parameters"
  /\ \E encoded \in { encodeParameters(last.types, last.values, <<>>) } :
       \E decoded \in { decodeParameters(last.types, encoded.hex, <<>>) } :
         last' = [op |-> "roundTrip", types |-> last.types, values |-> last.values,
                  encoded |-> [ok |-> encoded.ok, hex |-> encoded.hex],
                  decoded |-> IF encoded.ok
                              THEN [ok |-> decoded.ok, values |-> decoded.values]
                              ELSE [ok |-> FALSE, values |-> <<>>]]
  /\ UNCHANGED <<selectorCache, signatureCache, typeCache, codec, codecCache>>

\* decoder.decodeInt(encoder.encodeInt(v, bits), 0, bits)
RoundTripInt ==
  /\ last.op = "int"
  /\ \E encoded \in { encodeInt(VBig(last.v), last.bits) } :
       \E decoded \in { decodeInt(encoded.buf, 0, last.bits) } :
         last' = [op |-> "roundTripInt", bits |-> last.bits, v |-> last.v,
                  encoded |-> encoded,
                  decoded |-> [ok |-> encoded.ok /\ decoded.ok, value |-> decoded.value]]
  /\ UNCHANGED <<selectorCache, signatureCache, typeCache, codec, codecCache>>

NextRoundTrip == RoundTrip \/ RoundTripInt

SpecRoundTrip == InitRoundTrip /\ [][NextRoundTrip]_vars

\* ------------------------------------------------------------------------
\* Round trips
\* ------------------------------------------------------------------------

\* the element type of an array type
ElementType(type) ==
  IF type.js = "object" THEN [type EXCEPT !.type.dims = Front(@)]
  ELSE TStr(type.k, type.n, Front(type.dims))

\* what decoding is to give back for a value well-formed under a type:
\* integers as decimal strings, addresses in lowercase, the rest as it is
RECURSIVE Normalized(_, _)
Normalized(type, value) ==
  LET typeStr == TypeStrOf(type)
  IN IF typeStr.dims # <<>>
     THEN VArr(SeqOf([i \in 1..Len(value.items) |->
                        Normalized(ElementType(type), value.items[i])], Len(value.items)))
     ELSE IF typeStr.k = "tuple"
     THEN VObj(value.keys, SeqOf([i \in 1..Len(value.vals) |->
                                    Normalized(type.components[i], value.vals[i])],
                                 Len(value.vals)))
     ELSE IF typeStr.k \in {"uint", "int"} THEN VDec(value.big)
     ELSE IF typeStr.k = "address" THEN VHex(ToLowerCase(value.hex))
     ELSE value

NormalizedList(types, values) ==
  SeqOf([i \in 1..Len(types) |-> Normalized(types[i], values[i])], Len(types))

\* C1: decodeParameters(types, encodeParameters(types, values)) returns the
\* values, integers as decimal strings and addresses in lowercase, for every
\* list of supported types and every list of values well-formed under them
C1_RoundTrip ==
  last.op = "roundTrip" =>
    /\ last.encoded.ok
    /\ last.decoded.ok
    /\ last.decoded.values = NormalizedList(last.types, last.values)

\* a round trip of one string that keeps its characters has been made
C1_Reached ==
  /\ last.op = "roundTrip"
  /\ last.types = <<String>>
  /\ last.decoded.ok
  /\ last.decoded.values = last.values

IsDynamicArray(type) == type.js = "string" /\ type.dims # <<>> /\ type.dims[Len(type.dims)] = -1

\* C8: a value of a dynamic array type T[], T static or dynamic, comes back
\* from decodeParameters([T[]], encodeParameters([T[]], [v])) as [v], with
\* exactly as many elements as v has
C8_DynamicArrayRoundTrip ==
  (last.op = "roundTrip" /\ Len(last.types) = 1 /\ IsDynamicArray(last.types[1])) =>
    /\ last.encoded.ok
    /\ last.decoded.ok
    /\ last.decoded.values[1].len = last.values[1].len
    /\ last.decoded.values = NormalizedList(last.types, last.values)

\* the array ["a", "bc"] has been encoded as string[] and its encoding decoded
C8_Reached ==
  /\ last.op = "roundTrip"
  /\ last.types = <<TStr("string", -1, <<-1>>)>>
  /\ last.encoded.ok
  /\ last.decoded.ok

\* C9: for every width and every v in the range of intN, decodeInt reads the
\* word encodeInt(v, bits) made and returns the decimal string of v
C9_SignedRoundTrip ==
  last.op = "roundTripInt" =>
    /\ last.encoded.ok
    /\ last.decoded.ok
    /\ last.decoded.value = VDec(last.v)

\* a negative value of a width under 256 has been given to encodeInt
C9_Reached ==
  /\ last.op = "roundTripInt"
  /\ last.bits < 256
  /\ last.v.neg

\* C10: encodeParameters succeeds on a tuple with components and a value
\* well-formed for it, and decodeTuple reads the fields back from the encoding
C10_TupleEncoding ==
  (last.op = "roundTrip" /\ Len(last.types) = 1 /\ last.types[1].js = "object") =>
    /\ last.encoded.ok
    /\ last.decoded.ok
    /\ last.decoded.values = NormalizedList(last.types, last.values)

\* a tuple has been given to encodeParameters
C10_Reached ==
  /\ last.op = "roundTrip"
  /\ last.types = <<StaticTuple>>

\* ------------------------------------------------------------------------
\* Selectors and function calls
\* ------------------------------------------------------------------------

Fn(name, inputs, outputs) ==
  [type |-> "function", name |-> name, inputs |-> inputs, outputs |-> outputs]

\* descriptors a caller writes for an ERC-20 token
transfer    == Fn("transfer", <<TObj("to", Address, <<>>), TObj("amount", Uint256, <<>>)>>,
                  <<TObj("", Bool, <<>>)>>)
totalSupply == Fn("totalSupply", <<>>, <<TObj("", Uint256, <<>>)>>)
balanceOf   == Fn("balanceOf", <<TObj("account", Address, <<>>)>>, <<TObj("", Uint256, <<>>)>>)
Transfer    == COMMON_EVENT_ABIS("ERC20_TRANSFER")[1]
Approval    == [type |-> "event", name |-> "Approval",
                inputs |-> <<TEv("owner", Address, TRUE), TEv("spender", Address, TRUE),
                             TEv("value", Uint256, FALSE)>>]

\* a function with the name and the input types of the event Transfer
TransferFunction ==
  Fn("Transfer", <<TObj("from", Address, <<>>), TObj("to", Address, <<>>),
                   TObj("value", Uint256, <<>>)>>, <<>>)

\* a function with an array among its inputs
batch == Fn("batch", <<TObj("amounts", Uint256Array, <<>>)>>, <<>>)

\* an ABI of an ERC-20 token: three of its functions and its two events
TokenAbi == <<balanceOf, totalSupply, transfer, Transfer, Approval>>

\* the ABIs a caller constructs a codec with
Abis == { TokenAbi, <<TransferFunction, batch>> }

Functions == { transfer, totalSupply, TransferFunction }
Events    == { Transfer, Approval }

\* function calls with well-formed arguments
Calls == { [func |-> transfer, params |-> <<Addr1, Dec(5)>>],
           [func |-> totalSupply, params |-> <<>>],
           [func |-> TransferFunction, params |-> <<Addr1, Addr2, Dec(5)>>],
           [func |-> batch, params |-> <<VArr(<<Dec(1), Dec(2)>>)>>],
           [func |-> batch, params |-> <<VArr(<<VBig(BigOfInt(5))>>)>>] }

\* the selector and the topic a descriptor has by its signature
SelectorOf(func) == getFunctionSelectorFromSignature(getFunctionSignature(func, NoCaches).value)
TopicOf(event)   == keccak256(getEventSignature(event, NoCaches).value)

\* codec = new ABICodec(abi)
Construct ==
  \E abi \in Abis :
    \E made \in { ABICodec(abi, U) } :
      /\ codec' = made.codec
      /\ SetU(made.u)
      /\ last' = [op |-> "construct", abi |-> abi]
      /\ UNCHANGED codecCache

GetFunctionSelector ==
  \E func \in Functions :
    \E selector \in { getFunctionSelector(func, U) } :
      /\ last' = [op |-> "getFunctionSelector", item |-> func, selector |-> selector.value]
      /\ SetU(selector.u)
      /\ UNCHANGED <<codec, codecCache>>

GetEventSelector ==
  \E event \in Events :
    \E selector \in { getEventSelector(event, U) } :
      /\ last' = [op |-> "getEventSelector", item |-> event, selector |-> selector.value]
      /\ SetU(selector.u)
      /\ UNCHANGED <<codec, codecCache>>

\* codec.encodeFunction(nameOrSelector, params), by name or by selector, for
\* a function of the ABI the codec was made with
EncodeFunction ==
  \E call \in Calls :
    \E nameOrSelector \in { KeyOfName(call.func.name), KeyOfHex(SelectorOf(call.func)) } :
      /\ call.func \in { codec.abi[i] : i \in 1..Len(codec.abi) }
      /\ \E encoded \in { encodeFunction(codec, nameOrSelector, call.params, U) } :
           /\ last' = [op |-> "encodeFunction", func |-> call.func, params |-> call.params,
                       nameOrSelector |-> nameOrSelector,
                       ok |-> encoded.ok, hex |-> encoded.hex]
           /\ codec' = encoded.codec
           /\ SetU(encoded.u)
      /\ UNCHANGED codecCache

NextSelectors == Construct \/ GetFunctionSelector \/ GetEventSelector \/ EncodeFunction

SpecSelectors == Init /\ [][NextSelectors]_vars

\* C4: whatever calls came before, getFunctionSelector(f) is the first four
\* bytes of keccak256 of f's signature, the value
\* getFunctionSelectorFromSignature gives for it, and getEventSelector(e) is
\* all 32 bytes of keccak256 of e's signature
C4_SelectorsBySignature ==
  /\ last.op = "getFunctionSelector" => last.selector = SelectorOf(last.item)
  /\ last.op = "getEventSelector" => last.selector = TopicOf(last.item)

\* getEventSelector has been asked for Transfer after the function that
\* shares its name and input types had its selector computed
C4_Reached ==
  /\ last.op = "getEventSelector"
  /\ last.item = Transfer
  /\ SelectorKey(TransferFunction) \in DOMAIN selectorCache
  /\ Len(selectorCache[SelectorKey(TransferFunction)]) = 8

\* C5: encodeFunction of a function F of the codec's ABI with well-formed
\* arguments returns, by F's name as by F's selector, the four bytes of F's
\* selector followed by encodeParameters(F.inputs, args): four bytes in all
\* when F has no inputs
C5_EncodeFunction ==
  last.op = "encodeFunction" =>
    /\ last.ok
    /\ last.hex = SelectorOf(last.func)
                    \o encodeParameters(last.func.inputs, last.params, <<>>).hex
    /\ last.func.inputs = <<>> => Len(last.hex) = 8

\* totalSupply, which has no inputs, has been encoded by its selector
C5_Reached ==
  /\ last.op = "encodeFunction"
  /\ last.func = totalSupply
  /\ last.nameOrSelector = KeyOfHex(SelectorOf(totalSupply))
  /\ last.ok
  /\ Len(last.hex) = 8

\* ------------------------------------------------------------------------
\* Decoding on the codec the caller holds
\* ------------------------------------------------------------------------

\* the 64 hex digits of a 32-byte word
WordHex(digits) == PadTo(digits, 64)

Words == { WordHex(<<5>>), WordHex(<<6>>) }

\* 32-byte topics that hold an address
Topics == { WordHex(Addr1.hex), WordHex(Addr2.hex) }

\* codec.decoder.decodeParameters(types, data)
DecodeParameters ==
  \E data \in Words :
    \E decoded \in { decodeParameters(<<Uint256>>, data, codec.decoder) } :
      /\ last' = [op |-> "decodeParameters", types |-> <<Uint256>>, data |-> data,
                  ok |-> decoded.ok, values |-> decoded.values]
      /\ codec' = [codec EXCEPT !.decoder = decoded.cache]
      /\ UNCHANGED <<selectorCache, signatureCache, typeCache, codecCache>>

\* codec.decodeFunction(nameOrSelector, data) of the call data of transfer
DecodeFunction ==
  \E nameOrSelector \in { KeyOfName("transfer"), KeyOfHex(SelectorOf(transfer)) },
     amount \in Words :
    \E decoded \in { decodeFunction(codec, nameOrSelector,
                                    SelectorOf(transfer) \o WordHex(Addr1.hex) \o amount) } :
      /\ last' = [op |-> "decodeFunction", nameOrSelector |-> nameOrSelector,
                  data |-> SelectorOf(transfer) \o WordHex(Addr1.hex) \o amount,
                  ok |-> decoded.ok, values |-> decoded.values]
      /\ codec' = decoded.codec
      /\ UNCHANGED <<selectorCache, signatureCache, typeCache, codecCache>>

\* codec.decodeFunctionResult('balanceOf', data)
DecodeFunctionResult ==
  \E data \in Words :
    \E decoded \in { decodeFunctionResult(codec, KeyOfName("balanceOf"), data) } :
      /\ last' = [op |-> "decodeFunctionResult", nameOrSelector |-> KeyOfName("balanceOf"),
                  data |-> data, ok |-> decoded.ok, values |-> decoded.values]
      /\ codec' = decoded.codec
      /\ UNCHANGED <<selectorCache, signatureCache, typeCache, codecCache>>

\* codec.decodeLog(data, topics) of a Transfer log
DecodeLog ==
  \E from \in Topics, to \in Topics, data \in Words :
    \E decoded \in { ABICodec_decodeLog(codec, data, <<TopicOf(Transfer), from, to>>,
                                        VUndefined) } :
      /\ last' = [op |-> "decodeLog", data |-> data,
                  topics |-> <<TopicOf(Transfer), from, to>>,
                  ok |-> decoded.ok, value |-> decoded.value]
      /\ codec' = decoded.codec
      /\ UNCHANGED <<selectorCache, signatureCache, typeCache, codecCache>>

NextDecode == Construct \/ DecodeParameters \/ DecodeFunction \/ DecodeFunctionResult
                \/ DecodeLog

SpecDecode == Init /\ [][NextDecode]_vars

\* C2: whatever decode calls came before on the codec, decodeParameters,
\* decodeFunction, decodeFunctionResult and decodeLog return what they return
\* on a codec whose Decoder is new
C2_MemoizationUnobservable ==
  LET new == [codec EXCEPT !.decoder = <<>>]
  IN /\ last.op = "decodeParameters" =>
          /\ last.ok = decodeParameters(last.types, last.data, <<>>).ok
          /\ last.values = decodeParameters(last.types, last.data, <<>>).values
     /\ last.op = "decodeFunction" =>
          /\ last.ok = decodeFunction(new, last.nameOrSelector, last.data).ok
          /\ last.values = decodeFunction(new, last.nameOrSelector, last.data).values
     /\ last.op = "decodeFunctionResult" =>
          /\ last.ok = decodeFunctionResult(new, last.nameOrSelector, last.data).ok
          /\ last.values = decodeFunctionResult(new, last.nameOrSelector, last.data).values
     /\ last.op = "decodeLog" =>
          /\ last.ok = ABICodec_decodeLog(new, last.data, last.topics, VUndefined).ok
          /\ last.value = ABICodec_decodeLog(new, last.data, last.topics, VUndefined).value

\* the word 6 has been decoded as uint256 on a Decoder that has decoded
\* another word of the same length
C2_Reached ==
  /\ last.op = "decodeParameters"
  /\ last.data = WordHex(<<6>>)
  /\ last.ok
  /\ last.values = <<Dec(5)>>

\* '0x' + the low 20 bytes of a 32-byte word, in lowercase
Low20(word) == VHex(ToLowerCase(SliceFrom(word, 24)))

\* the decimal string of the word that 64 hex digits are
DecOfWord(word) == VDec(BigOfNat(NatOfHex(word)))

\* C3: decodeLog of a Transfer log on a codec that has the event returns
\* args.from of topics[1], args.to of topics[2] and args.value of data
C3_TransferLog ==
  (last.op = "decodeLog" /\ KeyOfHex(TopicOf(Transfer)) \in DOMAIN codec.events) =>
    /\ last.ok
    /\ last.value.name = "Transfer"
    /\ ObjGet(last.value.args, "from") = Low20(last.topics[2])
    /\ ObjGet(last.value.args, "to") = Low20(last.topics[3])
    /\ ObjGet(last.value.args, "value") = DecOfWord(last.data)

\* a Transfer log whose two address topics differ has been decoded
C3_Reached ==
  /\ last.op = "decodeLog"
  /\ last.ok
  /\ last.topics[2] # last.topics[3]

\* ------------------------------------------------------------------------
\* Receipts
\* ------------------------------------------------------------------------

\* most logs of a receipt or of a batch
MaxLogs == 2

\* a log; n tells its block, its transaction and its place in them
Log(address, topics, data, n) ==
  [address |-> address, topics |-> topics, data |-> data,
   blockNumber |-> 100 + n, blockHash |-> <<11, n>>, transactionHash |-> <<10, n>>,
   transactionIndex |-> n, logIndex |-> 10 + n, removed |-> FALSE]

\* two Transfer logs, a Mint log, which the ERC-20 ABI does not have, a log
\* without topics and a Transfer log with a topic that is no hex string
ReceiptLogs ==
  { Log(Addr1, <<TopicOf(Transfer), WordHex(Addr1.hex), WordHex(Addr2.hex)>>, WordHex(<<5>>), 1),
    Log(Addr2, <<TopicOf(Transfer), WordHex(Addr2.hex), WordHex(Addr1.hex)>>, WordHex(<<6>>), 2),
    Log(Addr1, <<EVENT_SIGNATURES("MINT"), WordHex(Addr1.hex)>>,
        WordHex(<<1>>) \o WordHex(<<2>>), 3),
    Log(Addr2, <<>>, <<>>, 4),
    Log(Addr1, <<TopicOf(Transfer), WordHex(<<22>>), WordHex(Addr1.hex)>>, WordHex(<<7>>), 5) }

\* a receipt that has no logs, and the receipts of up to MaxLogs logs
Receipts ==
  { [status |-> 1] }
  \cup { [status |-> 1, logs |-> logs] :
           logs \in UNION { [1..n -> ReceiptLogs] : n \in 0..MaxLogs } }

\* codec.decodeReceiptLogs(receipt)
DecodeReceiptLogs ==
  \E receipt \in Receipts :
    \E decoded \in { decodeReceiptLogs(codec, receipt) } :
      /\ last' = [op |-> "decodeReceiptLogs", receipt |-> receipt, value |-> decoded.value]
      /\ codec' = decoded.codec
      /\ UNCHANGED <<selectorCache, signatureCache, typeCache, codecCache>>

NextReceipts == Construct \/ DecodeReceiptLogs

SpecReceipts == Init /\ [][NextReceipts]_vars

\* the log has a topic, the codec has the event of its first topic and
\* decoding the log by that event does not throw
Yields(log) ==
  /\ log.topics # <<>>
  /\ KeyOfHex(log.topics[1]) \in DOMAIN codec.events
  /\ Decoder_decodeLog(codec.events[KeyOfHex(log.topics[1])], log.data, log.topics, <<>>).ok

\* the log has a topic, the codec has its event, and decoding it throws
Throws(log) ==
  /\ log.topics # <<>>
  /\ KeyOfHex(log.topics[1]) \in DOMAIN codec.events
  /\ ~Yields(log)

\* the places, counted from 0, of the logs of a receipt that yield an entry
Yielding(logs) ==
  SelectSeq(SeqOf([i \in 1..Len(logs) |-> i - 1], Len(logs)), LAMBDA i : Yields(logs[i + 1]))

\* C7: decodeReceiptLogs returns one entry for each log that has a topic, has
\* its first topic registered in the codec and is decoded without a throw, no
\* entry for any other log, and the entries in the order of the logs: entry k
\* has the place, as logIndex, and the metadata of the k-th such log
C7_NeverAborts ==
  last.op = "decodeReceiptLogs" =>
    IF "logs" \notin DOMAIN last.receipt THEN last.value = <<>>
    ELSE /\ Len(last.value) = Len(Yielding(last.receipt.logs))
         /\ \A k \in 1..Len(last.value) :
              /\ last.value[k].logIndex = Yielding(last.receipt.logs)[k]
              /\ last.value[k].address = last.receipt.logs[last.value[k].logIndex + 1].address
              /\ last.value[k].transactionHash
                   = last.receipt.logs[last.value[k].logIndex + 1].transactionHash
              /\ last.value[k].name
                   = codec.events[KeyOfHex(
                       last.receipt.logs[last.value[k].logIndex + 1].topics[1])].name

\* a receipt whose first log throws in decoding and whose second log is
\* decoded has given the entry of the second
C7_Reached ==
  /\ last.op = "decodeReceiptLogs"
  /\ "logs" \in DOMAIN last.receipt
  /\ Len(last.receipt.logs) = 2
  /\ Throws(last.receipt.logs[1])
  /\ Yields(last.receipt.logs[2])
  /\ Len(last.value) = 1
  /\ last.value[1].logIndex = 1

\* C15: each entry decodeReceiptLogs returns has the address, blockHash,
\* blockNumber, transactionHash, transactionIndex, logIndex and removed of
\* the log it was decoded from
C15_MetadataUnchanged ==
  (last.op = "decodeReceiptLogs" /\ "logs" \in DOMAIN last.receipt) =>
    /\ Len(last.value) = Len(Yielding(last.receipt.logs))
    /\ \A k \in 1..Len(last.value) :
         LET log == last.receipt.logs[Yielding(last.receipt.logs)[k] + 1]
         IN /\ last.value[k].address = log.address
            /\ last.value[k].blockHash = log.blockHash
            /\ last.value[k].blockNumber = log.blockNumber
            /\ last.value[k].transactionHash = log.transactionHash
            /\ last.value[k].transactionIndex = log.transactionIndex
            /\ last.value[k].logIndex = log.logIndex
            /\ last.value[k].removed = log.removed

\* a receipt of one Transfer log has given its entry
C15_Reached ==
  /\ last.op = "decodeReceiptLogs"
  /\ "logs" \in DOMAIN last.receipt
  /\ Len(last.receipt.logs) = 1
  /\ Len(last.value) = 1
  /\ last.value[1].blockHash = last.receipt.logs[1].blockHash

\* ------------------------------------------------------------------------
\* The log decoder
\* ------------------------------------------------------------------------

\* two logs of each common event, well-formed and different in every field
CommonLogs ==
  { Log(Addr1, <<EVENT_SIGNATURES("TRANSFER"), WordHex(Addr1.hex), WordHex(Addr2.hex)>>,
        WordHex(<<5>>), 1),
    Log(Addr2, <<EVENT_SIGNATURES("TRANSFER"), WordHex(Addr2.hex), WordHex(Addr1.hex)>>,
        WordHex(<<6>>), 2),
    Log(Addr1, <<EVENT_SIGNATURES("MINT"), WordHex(Addr1.hex)>>,
        WordHex(<<1>>) \o WordHex(<<2>>), 3),
    Log(Addr2, <<EVENT_SIGNATURES("MINT"), WordHex(Addr2.hex)>>,
        WordHex(<<3>>) \o WordHex(<<4>>), 4),
    Log(Addr1, <<EVENT_SIGNATURES("PAIR_CREATED"), WordHex(Addr1.hex), WordHex(Addr2.hex)>>,
        WordHex(Addr1.hex) \o WordHex(<<1>>), 5),
    Log(Addr2, <<EVENT_SIGNATURES("PAIR_CREATED"), WordHex(Addr2.hex), WordHex(Addr1.hex)>>,
        WordHex(Addr2.hex) \o WordHex(<<2>>), 6) }

\* what a caller gives decodeLogs: an array of logs, a receipt or one log
Batches ==
  { [items |-> logs] : logs \in UNION { [1..n -> CommonLogs] : n \in 0..MaxLogs } }
  \cup { [logs |-> logs] : logs \in UNION { [1..n -> CommonLogs] : n \in 1..MaxLogs } }
  \cup CommonLogs

\* decodeLogs(receipts)
DecodeLogs ==
  \E receipts \in Batches :
    \E decoded \in { decodeLogs(receipts, codecCache, U) } :
      /\ last' = [op |-> "decodeLogs", logs |-> LogsToProcess(receipts),
                  value |-> decoded.value]
      /\ codecCache' = decoded.codecCache
      /\ SetU(decoded.u)
      /\ UNCHANGED codec

SpecLogs == Init /\ [][DecodeLogs]_vars

\* the logs of one common event among logs, in their order
LogsOf(logs, name) == SelectSeq(logs, LAMBDA log : log.topics[1] = EVENT_SIGNATURES(name))

\* the entry has the metadata of the log
OwnMetadata(entry, log) ==
  /\ entry.contractAddress = log.address
  /\ entry.blockNumber = log.blockNumber
  /\ entry.transactionHash = log.transactionHash
  /\ entry.logIndex = log.logIndex

\* C6: decodeLogs returns, in each category, one entry for each log of that
\* event, in the order of the logs, and entry i has the fields and the
\* metadata of log i, whatever other logs were decoded with it or before it
C6_OwnValues ==
  last.op = "decodeLogs" =>
    /\ Len(last.value.transfers) = Len(LogsOf(last.logs, "TRANSFER"))
    /\ \A i \in 1..Len(last.value.transfers) :
         /\ OwnMetadata(last.value.transfers[i], LogsOf(last.logs, "TRANSFER")[i])
         /\ last.value.transfers[i].from = Low20(LogsOf(last.logs, "TRANSFER")[i].topics[2])
         /\ last.value.transfers[i].to = Low20(LogsOf(last.logs, "TRANSFER")[i].topics[3])
         /\ last.value.transfers[i].value = DecOfWord(LogsOf(last.logs, "TRANSFER")[i].data)
    /\ Len(last.value.mints) = Len(LogsOf(last.logs, "MINT"))
    /\ \A i \in 1..Len(last.value.mints) :
         /\ OwnMetadata(last.value.mints[i], LogsOf(last.logs, "MINT")[i])
         /\ last.value.mints[i].sender = Low20(LogsOf(last.logs, "MINT")[i].topics[2])
         /\ last.value.mints[i].amount0
              = DecOfWord(Slice(LogsOf(last.logs, "MINT")[i].data, 0, 64))
         /\ last.value.mints[i].amount1
              = DecOfWord(Slice(LogsOf(last.logs, "MINT")[i].data, 64, 128))
    /\ Len(last.value.pairCreated) = Len(LogsOf(last.logs, "PAIR_CREATED"))
    /\ \A i \in 1..Len(last.value.pairCreated) :
         /\ OwnMetadata(last.value.pairCreated[i], LogsOf(last.logs, "PAIR_CREATED")[i])
         /\ last.value.pairCreated[i].token0
              = Low20(LogsOf(last.logs, "PAIR_CREATED")[i].topics[2])
         /\ last.value.pairCreated[i].token1
              = Low20(LogsOf(last.logs, "PAIR_CREATED")[i].topics[3])
         /\ last.value.pairCreated[i].pair
              = Low20(Slice(LogsOf(last.logs, "PAIR_CREATED")[i].data, 0, 64))

\* two Mint logs of different senders and amounts have been decoded in one
\* batch, and each has its entry
C6_Reached ==
  /\ last.op = "decodeLogs"
  /\ Len(last.logs) = 2
  /\ Len(last.value.mints) = 2
  /\ last.logs[1].topics[2] # last.logs[2].topics[2]

\* ------------------------------------------------------------------------
\* Canonical types and signatures
\* ------------------------------------------------------------------------

Tuple == TStr("tuple", -1, <<>>)

\* parameters struct { uint256 a; bool b } order, struct { address owner }
\* order and an array of the first struct
Order  == TObj("order", Tuple, <<TObj("a", Uint256, <<>>), TObj("b", Bool, <<>>)>>)
Owner  == TObj("order", Tuple, <<TObj("owner", Address, <<>>)>>)
Orders == TObj("orders", TStr("tuple", -1, <<-1>>),
               <<TObj("a", Uint256, <<>>), TObj("b", Bool, <<>>)>>)

submitOrder  == Fn("submit", <<Order>>, <<>>)
submitOwner  == Fn("submit", <<Owner>>, <<>>)
submitOrders == Fn("submit", <<Orders>>, <<>>)

\* the descriptor with other names for its inputs
Renamed(item) ==
  [item EXCEPT !.inputs = SeqOf([i \in 1..Len(item.inputs) |->
                                   [item.inputs[i] EXCEPT !.name = "p" \o ToString(i)]],
                                Len(item.inputs))]

Signed == { submitOrder, submitOwner, submitOrders, transfer, TransferFunction, Transfer }

\* the descriptors a caller asks the signature and the selector of
Descriptors == Signed \cup { Renamed(item) : item \in { submitOrder, transfer, Transfer } }

GetFunctionSignature ==
  \E func \in { item \in Descriptors : item.type = "function" } :
    \E signature \in { getFunctionSignature(func, U) } :
      /\ last' = [op |-> "getFunctionSignature", item |-> func, value |-> signature.value]
      /\ SetU(signature.u)
      /\ UNCHANGED <<codec, codecCache>>

GetEventSignature ==
  \E event \in { item \in Descriptors : item.type = "event" } :
    \E signature \in { getEventSignature(event, U) } :
      /\ last' = [op |-> "getEventSignature", item |-> event, value |-> signature.value]
      /\ SetU(signature.u)
      /\ UNCHANGED <<codec, codecCache>>

\* getFunctionSelector(func) for a function, getEventSelector(event) for an event
GetSelector ==
  \E item \in Descriptors :
    \E selector \in { IF item.type = "function" THEN getFunctionSelector(item, U)
                      ELSE getEventSelector(item, U) } :
      /\ last' = [op |-> "getSelector", item |-> item, value |-> selector.value]
      /\ SetU(selector.u)
      /\ UNCHANGED <<codec, codecCache>>

NextSignatures == GetFunctionSignature \/ GetEventSignature \/ GetSelector

SpecSignatures == Init /\ [][NextSignatures]_vars

\* the canonical form of a parameter: a tuple as the list of the canonical
\* forms of its components in parentheses, uint and int with their width,
\* each followed by the array suffixes of the type
RECURSIVE Canonical(_)
Canonical(param) ==
  LET type == param.type
      RECURSIVE list(_)
      list(i) == IF i > Len(param.components) THEN ""
                 ELSE (IF i > 1 THEN "," ELSE "") \o Canonical(param.components[i])
                        \o list(i + 1)
  IN IF type.k = "tuple"
     THEN "(" \o list(1) \o ")" \o TypeText(TStr("", -1, type.dims))
     ELSE IF type.k \in {"uint", "int"} /\ type.n = -1
     THEN TypeText(TStr(type.k \o "256", -1, type.dims))
     ELSE TypeText(type)

\* name(canonical forms of the inputs)
CanonicalSignature(item) ==
  LET RECURSIVE list(_)
      list(i) == IF i > Len(item.inputs) THEN ""
                 ELSE (IF i > 1 THEN "," ELSE "") \o Canonical(item.inputs[i]) \o list(i + 1)
  IN item.name \o "(" \o list(1) \o ")"

HasTuple(item) == \E i \in 1..Len(item.inputs) : item.inputs[i].type.k = "tuple"

\* C11: the signature of a function or an event with a tuple parameter, or an
\* array of tuples, has the components' canonical types in parentheses in
\* its place, and two functions of one name whose tuples have different
\* components have different selectors
C11_TupleSignatures ==
  /\ (last.op \in {"getFunctionSignature", "getEventSignature"} /\ HasTuple(last.item)) =>
       last.value = CanonicalSignature(last.item)
  /\ (last.op = "getSelector" /\ HasTuple(last.item)) =>
       \A other \in Descriptors :
         (other.type = "function" /\ other.name = last.item.name
            /\ CanonicalSignature(other) # CanonicalSignature(last.item)) =>
           getFunctionSelector(other, U).value # last.value

\* the signature of submit(struct { uint256 a; bool b } order) has been asked
C11_Reached ==
  /\ last.op = "getFunctionSignature"
  /\ last.item = submitOrder
  /\ last.value = "submit(tuple)"

CanonicalParams ==
  { TObj("x", TStr("uint", -1, dims), <<>>) : dims \in { <<>>, <<-1>>, <<3>>, <<-1, -1>> } }
  \cup { TObj("y", TStr("int", -1, dims), <<>>) : dims \in { <<>>, <<-1>>, <<2, -1>> } }
  \cup { TObj("z", TStr("uint", 8, <<>>), <<>>), TObj("z", TStr("address", -1, <<-1>>), <<>>) }

GetCanonicalType ==
  \E param \in CanonicalParams :
    \E canonical \in { getCanonicalType(param, typeCache) } :
      /\ last' = [op |-> "getCanonicalType", param |-> param, value |-> canonical.value]
      /\ typeCache' = canonical.typeCache
      /\ UNCHANGED <<selectorCache, signatureCache, codec, codecCache>>

SpecCanonical == Init /\ [][GetCanonicalType]_vars

\* C12: getCanonicalType of a parameter whose element type is uint or int
\* returns uint256 or int256 followed by the array suffixes of the type
C12_NoBareInt ==
  (last.op = "getCanonicalType" /\ last.param.type.k \in {"uint", "int"}
     /\ last.param.type.n = -1) =>
    last.value = TypeText(TStr(last.param.type.k \o "256", -1, last.param.type.dims))

\* getCanonicalType has been called with an array of arrays of uint
C12_Reached ==
  /\ last.op = "getCanonicalType"
  /\ last.param.type = TStr("uint", -1, <<-1, -1>>)

\* ------------------------------------------------------------------------
\* Indexed parameters of dynamic types
\* ------------------------------------------------------------------------

\* an indexed parameter p of a type, with the components a tuple has
Indexed(type, components) ==
  [js |-> "object", name |-> "p", type |-> type, components |-> components, indexed |-> TRUE]

\* indexed parameters of the types string, bytes, uint256[], uint256[2],
\* string[2] and of a struct { uint256 a; bool b }
IndexedParams ==
  { Indexed(String, <<>>), Indexed(Bytes, <<>>), Indexed(Uint256Array, <<>>),
    Indexed(TStr("uint", 256, <<2>>), <<>>), Indexed(TStr("string", -1, <<2>>), <<>>),
    Indexed(Tuple, Order.components) }

\* event Noted(T indexed p, uint256 value) for each of them
IndexedEvents ==
  { [type |-> "event", name |-> "Noted", inputs |-> <<param, TEv("value", Uint256, FALSE)>>] :
      param \in IndexedParams }

\* codec.decoder.decodeLog(event, data, topics) of a log of such an event:
\* its second topic is the digest of the value, its data is a word or '0x'
DecodeIndexedLog ==
  \E event \in IndexedEvents, topic \in { TopicOf(Transfer), TopicOf(Approval) },
     data \in Words \cup { <<>> } :
    \E decoded \in { Decoder_decodeLog(event, data, <<WordHex(<<1>>), topic>>,
                                       codec.decoder) } :
      /\ last' = [op |-> "decoder.decodeLog", event |-> event, data |-> data,
                  topics |-> <<WordHex(<<1>>), topic>>,
                  ok |-> decoded.ok, value |-> decoded.value]
      /\ codec' = [codec EXCEPT !.decoder = decoded.cache]
      /\ UNCHANGED <<selectorCache, signatureCache, typeCache, codecCache>>

SpecIndexed == Init /\ [][DecodeIndexedLog]_vars

\* C14: decodeLog returns, as the argument of an indexed parameter whose
\* type is string, bytes, an array or a tuple, the topic of the parameter
\* as it is
C14_RawTopic ==
  last.op = "decoder.decodeLog" =>
    /\ last.ok
    /\ ObjGet(last.value.args, "p") = VHex(last.topics[2])

\* a log with an indexed string has been decoded and holds the topic
C14_Reached ==
  /\ last.op = "decoder.decodeLog"
  /\ last.event.inputs[1].type = String
  /\ last.ok
  /\ ObjGet(last.value.args, "p") = VHex(TopicOf(Approval))

\* ------------------------------------------------------------------------
\* Empty data
\* ------------------------------------------------------------------------

\* parameter lists of no, one and two types, static and dynamic
TypeLists == { <<>>, <<Uint256>>, <<String>>, <<Uint256, String>>, <<Bool, Uint256Array>> }

\* return data: '0x' and one word
ReturnData == { <<>>, WordHex(<<5>>) }

\* codec.decoder.decodeParameters(types, data)
DecodeParametersOf ==
  \E types \in TypeLists, data \in ReturnData :
    \E decoded \in { decodeParameters(types, data, codec.decoder) } :
      /\ last' = [op |-> "decodeParameters", types |-> types, data |-> data,
                  ok |-> decoded.ok, values |-> decoded.values]
      /\ codec' = [codec EXCEPT !.decoder = decoded.cache]
      /\ UNCHANGED <<selectorCache, signatureCache, typeCache, codecCache>>

\* codec.decodeFunctionResult(name, data) for a function of the codec's ABI
DecodeFunctionResultOf ==
  \E func \in { balanceOf, totalSupply, transfer, batch }, data \in ReturnData :
    /\ func \in { codec.abi[i] : i \in 1..Len(codec.abi) }
    /\ \E decoded \in { decodeFunctionResult(codec, KeyOfName(func.name), data) } :
         /\ last' = [op |-> "decodeFunctionResult", types |-> func.outputs, data |-> data,
                     ok |-> decoded.ok, values |-> decoded.values]
         /\ codec' = decoded.codec
    /\ UNCHANGED <<selectorCache, signatureCache, typeCache, codecCache>>

NextEmptyData == Construct \/ DecodeParametersOf \/ DecodeFunctionResultOf

SpecEmptyData == Init /\ [][NextEmptyData]_vars

\* C16: decodeParameters(types, '0x'), and so decodeFunctionResult(name,
\* '0x'), returns an empty result, one that has no values, whatever the
\* parameter list is
C16_EmptyData ==
  (last.op \in { "decodeParameters", "decodeFunctionResult" } /\ last.data = <<>>) =>
    /\ last.ok
    /\ last.values = <<>>

\* '0x' has been decoded under a list of two types, and as the result of
\* a function that has an output
C16_Reached ==
  /\ last.op = "decodeParameters"
  /\ last.data = <<>>
  /\ Len(last.types) = 2
  /\ last.ok

C16_ResultReached ==
  /\ last.op = "decodeFunctionResult"
  /\ last.data = <<>>
  /\ Len(last.types) = 1
  /\ last.ok

\* ------------------------------------------------------------------------
\* Strings
\* ------------------------------------------------------------------------

\* the longest string encoded
MaxText == 3

\* NUL, the space, "a" and "e" with an acute accent
Chars == { 0, 32, 97, 233 }

\* the strings of at most MaxText of these characters
Texts == UNION { [1..n -> Chars] : n \in 0..MaxText }

\* the caller has chosen a string
InitStrings ==
  /\ selectorCache = <<>>
  /\ signatureCache = <<>>
  /\ typeCache = <<>>
  /\ codec = ABICodec(<<>>, NoCaches).codec
  /\ codecCache = <<>>
  /\ last \in { [op |-> "string", s |-> VText(chars)] : chars \in Texts }

\* decoder.decodeParameters(['string'], encoder.encodeParameters(['string'], [s]))
RoundTripString ==
  /\ last.op = "string"
  /\ \E encoded \in { encodeParameters(<<String>>, <<last.s>>, <<>>) } :
       \E decoded \in { decodeParameters(<<String>>, encoded.hex, <<>>) } :
         last' = [op |-> "roundTripString", s |-> last.s,
                  encoded |-> [ok |-> encoded.ok, hex |-> encoded.hex],
                  decoded |-> IF encoded.ok
                              THEN [ok |-> decoded.ok, values |-> decoded.values]
                              ELSE [ok |-> FALSE, values |-> <<>>]]
  /\ UNCHANGED <<selectorCache, signatureCache, typeCache, codec, codecCache>>

SpecStrings == InitStrings /\ [][RoundTripString]_vars

\* C17: decodeParameters(['string'], encodeParameters(['string'], [s]))
\* returns [s] for every string s, whitespace at its ends and NUL
\* characters in it included
C17_StringsAsEncoded ==
  last.op = "roundTripString" =>
    /\ last.encoded.ok
    /\ last.decoded.ok
    /\ last.decoded.values = <<last.s>>

\* a string that ends with a space and has a NUL in it has made the round
\* trip
C17_Reached ==
  /\ last.op = "roundTripString"
  /\ last.s.chars = <<97, 0, 32>>
  /\ last.decoded.ok

\* a string without NUL and without whitespace at its ends comes back as
\* it was
C17_PlainReached ==
  /\ last.op = "roundTripString"
  /\ last.s.chars = <<97, 32, 233>>
  /\ last.decoded.values = <<last.s>>

\* ------------------------------------------------------------------------
\* Unsigned integers of every width
\* ------------------------------------------------------------------------

\* the widths uintN has
UintWidths == { 8 * k : k \in 1..32 }

\* 32-byte words: zero, every power of two and every power of two less one
UintWords ==
  { Zeros(32) } \cup { PadTo(Pow2(p), 32) : p \in 0..255 }
                \cup { PadTo(Strip(NatSub(Pow2(p), <<1>>)), 32) : p \in 1..256 }

\* the caller has chosen a width and a word
InitUint ==
  /\ selectorCache = <<>>
  /\ signatureCache = <<>>
  /\ typeCache = <<>>
  /\ codec = ABICodec(<<>>, NoCaches).codec
  /\ codecCache = <<>>
  /\ last \in { [op |-> "uint", bits |-> bits, word |-> word] :
                  bits \in UintWidths, word \in UintWords }

\* decoder.decodeUint(word, 0, bits)
DecodeUintWord ==
  /\ last.op = "uint"
  /\ \E decoded \in { decodeUint(last.word, 0, last.bits) } :
       last' = [op |-> "decodeUint", bits |-> last.bits, word |-> last.word,
                ok |-> decoded.ok, value |-> decoded.value]
  /\ UNCHANGED <<selectorCache, signatureCache, typeCache, codec, codecCache>>

SpecUint == InitUint /\ [][DecodeUintWord]_vars

\* a bit at a position not below the width is set in the word
AboveWidth(word, bits) == NatLess(NatSub(Pow2(bits), <<1>>), Strip(word))

\* C19: decodeUint(bits) of a 32-byte word fails when a bit at a position
\* >= bits is set in the whole word, and otherwise returns the decimal
\* string of the value of the whole word
C19_UintRange ==
  last.op = "decodeUint" =>
    IF AboveWidth(last.word, last.bits) THEN ~last.ok
    ELSE last.ok /\ last.value = VDec(BigOfNat(Strip(last.word)))

\* a word with bit 64 set has been decoded as a uint64
C19_Reached ==
  /\ last.op = "decodeUint"
  /\ last.bits = 64
  /\ last.word = PadTo(Pow2(64), 32)

\* a word with bit 72 set has been refused as a uint72, and 2^72 - 1 has
\* been returned
C19_WideReached ==
  /\ last.op = "decodeUint"
  /\ last.bits = 72
  /\ \/ last.word = PadTo(Pow2(72), 32) /\ ~last.ok
     \/ last.word = PadTo(Strip(NatSub(Pow2(72), <<1>>)), 32) /\ last.ok

\* ------------------------------------------------------------------------
\* Input that ends early
\* ------------------------------------------------------------------------

\* encodings in the head/tail layout, each with the number of its bytes up
\* to the last one that is no padding
Encodings ==
  { [types |-> <<Uint256>>, buf |-> WordOf(5), needed |-> 32],
    [types |-> <<TStr("uint", 8, <<>>)>>, buf |-> WordOf(5), needed |-> 32],
    [types |-> <<Bool>>, buf |-> WordOf(1), needed |-> 32],
    [types |-> <<Address>>, buf |-> BytesOfHex(WordHex(Addr2.hex)), needed |-> 32],
    [types |-> <<Uint256, Bool>>, buf |-> WordOf(5) \o WordOf(1), needed |-> 64],
    [types |-> <<Bytes>>,
     buf |-> WordOf(32) \o WordOf(4) \o padRight(<<1, 2, 3, 4>>, 32), needed |-> 68],
    [types |-> <<String>>,
     buf |-> WordOf(32) \o WordOf(5) \o padRight(Utf8Encode(Hello.chars), 32), needed |-> 69],
    [types |-> <<Uint256Array>>,
     buf |-> WordOf(32) \o WordOf(2) \o WordOf(1) \o WordOf(2), needed |-> 128],
    [types |-> <<TStr("uint", 256, <<2>>)>>, buf |-> WordOf(1) \o WordOf(2), needed |-> 64],
    [types |-> <<StaticTuple>>, buf |-> WordOf(1) \o WordOf(1), needed |-> 64] }

\* encodings of a dynamic array and of bytes whose declared length is
\* greater than the input that is left
Oversized ==
  { [types |-> <<Uint256Array>>, buf |-> WordOf(32) \o WordOf(1000) \o WordOf(1)],
    [types |-> <<Uint256Array>>, buf |-> WordOf(32) \o WordOf(64) \o WordOf(1000) \o WordOf(1)],
    [types |-> <<Bytes>>, buf |-> WordOf(32) \o WordOf(1000) \o padRight(<<1, 2, 3, 4>>, 32)] }

\* the caller has an encoding cut before the last byte it needs, or an
\* encoding with an oversized length
InitTruncated ==
  /\ selectorCache = <<>>
  /\ signatureCache = <<>>
  /\ typeCache = <<>>
  /\ codec = ABICodec(<<>>, NoCaches).codec
  /\ codecCache = <<>>
  /\ last \in UNION { { [op |-> "truncated", types |-> e.types, buf |-> Slice(e.buf, 0, n),
                         whole |-> e.buf] : n \in 1..(e.needed - 1) } : e \in Encodings }
              \cup { [op |-> "oversized", types |-> e.types, buf |-> e.buf,
                      whole |-> e.buf] : e \in Oversized }

\* decoder.decodeParameters(types, data) of such an input
DecodeTruncated ==
  /\ last.op \in { "truncated", "oversized" }
  /\ \E decoded \in { decodeParameters(last.types, HexOfBytes(last.buf), <<>>) } :
       last' = [op |-> "decodeTruncated", input |-> last.op, types |-> last.types,
                buf |-> last.buf, whole |-> last.whole,
                ok |-> decoded.ok, values |-> decoded.values, cut |-> decoded.cut]
  /\ UNCHANGED <<selectorCache, signatureCache, typeCache, codec, codecCache>>

SpecTruncated == InitTruncated /\ [][DecodeTruncated]_vars

\* C18: decodeParameters fails when a head word, the target of an offset
\* or a payload ends past the end of the input, and when the declared
\* length of a dynamic array, of bytes or of a string is greater than the
\* input that is left
C18_NoReadOutside ==
  last.op = "decodeTruncated" => ~last.ok

\* an array that declares 1000 elements in an input of three words has
\* been decoded
C18_Reached ==
  /\ last.op = "decodeTruncated"
  /\ last.input = "oversized"
  /\ last.types = <<Uint256Array>>
  /\ Len(last.buf) = 96

\* a bool whose word is cut is refused
C18_RefusedReached ==
  /\ last.op = "decodeTruncated"
  /\ last.types = <<Bool>>
  /\ ~last.ok

\* ------------------------------------------------------------------------
\* Keys the codec does not have
\* ------------------------------------------------------------------------

\* a selector and a topic of no descriptor
NoSelector == <<13, 14, 10, 13, 11, 14, 14, 15>>
NoTopic    == WordHex(<<13, 14, 10, 13>>)

\* names and selectors a caller looks functions up by
FunctionKeys == { KeyOfName("transfer"), KeyOfHex(SelectorOf(transfer)), KeyOfName("Transfer"),
                  KeyOfName("missing"), KeyOfHex(NoSelector) }

\* names and topics a caller looks events up by, and no key
EventKeys == { VUndefined, KeyOfName("Transfer"), KeyOfHex(TopicOf(Transfer)),
               KeyOfName("missing"), KeyOfHex(NoTopic) }

\* codec.encodeFunction(key, [address, amount])
EncodeFunctionBy ==
  \E key \in FunctionKeys :
    \E encoded \in { encodeFunction(codec, key, <<Addr1, Dec(5)>>, U) } :
      /\ last' = [op |-> "encodeFunction", key |-> key, ok |-> encoded.ok,
                  error |-> encoded.error, result |-> encoded.hex]
      /\ codec' = encoded.codec
      /\ SetU(encoded.u)
      /\ UNCHANGED codecCache

\* codec.decodeFunction(key, data) of the call data of transfer
DecodeFunctionBy ==
  \E key \in FunctionKeys :
    \E decoded \in { decodeFunction(codec, key, SelectorOf(transfer) \o WordHex(Addr1.hex)
                                                  \o WordHex(<<5>>)) } :
      /\ last' = [op |-> "decodeFunction", key |-> key, ok |-> decoded.ok,
                  error |-> decoded.error, result |-> decoded.values]
      /\ codec' = decoded.codec
      /\ UNCHANGED <<selectorCache, signatureCache, typeCache, codecCache>>

\* codec.decodeFunctionResult(key, data) of one word
DecodeFunctionResultBy ==
  \E key \in FunctionKeys :
    \E decoded \in { decodeFunctionResult(codec, key, WordHex(<<1>>)) } :
      /\ last' = [op |-> "decodeFunctionResult", key |-> key, ok |-> decoded.ok,
                  error |-> decoded.error, result |-> decoded.values]
      /\ codec' = decoded.codec
      /\ UNCHANGED <<selectorCache, signatureCache, typeCache, codecCache>>

\* codec.decodeLog(data, topics, key); without a key the event is looked
\* up by topics[0]
DecodeLogBy ==
  \E key \in EventKeys, topic0 \in { TopicOf(Transfer), NoTopic } :
    \E decoded \in { ABICodec_decodeLog(codec, WordHex(<<5>>),
                                        <<topic0, WordHex(Addr1.hex), WordHex(Addr2.hex)>>,
                                        key) } :
      /\ last' = [op |-> "decodeLog",
                  key |-> IF key = VUndefined THEN KeyOfHex(topic0) ELSE key,
                  ok |-> decoded.ok, error |-> decoded.error,
                  result |-> IF decoded.ok THEN <<decoded.value>> ELSE <<>>]
      /\ codec' = decoded.codec
      /\ UNCHANGED <<selectorCache, signatureCache, typeCache, codecCache>>

NextKeys == Construct \/ EncodeFunctionBy \/ DecodeFunctionBy \/ DecodeFunctionResultBy
              \/ DecodeLogBy

SpecKeys == Init /\ [][NextKeys]_vars

\* the key is the name, or the selector or the topic, of a descriptor of
\* that type in the ABI the codec was made with
IsKeyOf(key, type) ==
  \E i \in 1..Len(codec.abi) :
    /\ codec.abi[i].type = type
    /\ \/ key = KeyOfName(codec.abi[i].name)
       \/ type = "function" /\ key = KeyOfHex(SelectorOf(codec.abi[i]))
       \/ type = "event" /\ key = KeyOfHex(TopicOf(codec.abi[i]))

\* the call has thrown an Error with that message and nothing has changed
FailsWith(message) ==
  /\ ~last'.ok
  /\ last'.error = message
  /\ last'.result = <<>>
  /\ UNCHANGED <<codec, selectorCache, signatureCache, typeCache, codecCache>>

\* C20: with a key that is no registered name and no registered selector,
\* encodeFunction, decodeFunction and decodeFunctionResult fail with
\* 'Function not found', and decodeLog with a key that is no registered
\* name and no registered topic fails with 'Event not found'; the call
\* returns nothing and leaves the functions, the events and the caches of
\* the encoder and of the decoder as they were
C20_UnknownKey ==
  [][/\ (/\ last'.op \in { "encodeFunction", "decodeFunction", "decodeFunctionResult" }
         /\ ~IsKeyOf(last'.key, "function")) => FailsWith("Function not found")
     /\ (last'.op = "decodeLog" /\ ~IsKeyOf(last'.key, "event"))
          => FailsWith("Event not found")]_vars

\* encodeFunction has failed for a name the codec does not have, after
\* calls that filled the caches of the encoder and of the decoder
C20_Reached ==
  /\ last.op = "encodeFunction"
  /\ last.key = KeyOfName("missing")
  /\ last.error = "Function not found"
  /\ codec.encoder # <<>>
  /\ codec.decoder # <<>>

\* decodeLog has failed for a name the codec does not have, given topics
\* whose first is the topic of an event the codec has
C20_EventReached ==
  /\ last.op = "decodeLog"
  /\ last.key = KeyOfName("missing")
  /\ last.error = "Event not found"
  /\ IsKeyOf(KeyOfName("Transfer"), "event")
  /\ codec.decoder # <<>>

\* ------------------------------------------------------------------------
\* Type expressions that are not valid
\* ------------------------------------------------------------------------

\* the widest uintN and intN tried, and the longest bytesN
MaxWidth == 264
MaxBytes == 40

\* widths that are no multiple of 8 or lie outside 8..256
InvalidWidths == { n \in 0..MaxWidth : n % 8 # 0 \/ n < 8 \/ n > 256 }

\* sizes of bytesN outside 1..32
InvalidSizes == { n \in 0..MaxBytes : n < 1 \/ n > 32 }

\* an invalid type with a value that fits it
InvalidTyped ==
  { [type |-> TStr(k, n, <<>>), value |-> Dec(0)] : k \in { "uint", "int" }, n \in InvalidWidths }
  \cup { [type |-> TStr("bytes", n, <<>>), value |-> VHex(Zeros(2 * n))] : n \in InvalidSizes }
  \cup { [type |-> TStr(k, -1, <<0>>), value |-> VArr(<<>>)] : k \in { "bool", "string" } }
  \cup { [type |-> TStr("uint", 256, d), value |-> VArr(<<>>)] : d \in { <<0>>, <<2, 0>> } }

\* the caller has chosen an invalid type
InitInvalid ==
  /\ selectorCache = <<>>
  /\ signatureCache = <<>>
  /\ typeCache = <<>>
  /\ codec = ABICodec(<<>>, NoCaches).codec
  /\ codecCache = <<>>
  /\ last \in { [op |-> "invalid", type |-> t.type, value |-> t.value] : t \in InvalidTyped }

\* encoder.encodeParameters([type], [value])
EncodeInvalid ==
  /\ last.op = "invalid"
  /\ \E encoded \in { encodeParameters(<<last.type>>, <<last.value>>, <<>>) } :
       last' = [op |-> "encodeInvalid", type |-> last.type, ok |-> encoded.ok,
                result |-> encoded.hex]
  /\ UNCHANGED <<selectorCache, signatureCache, typeCache, codec, codecCache>>

\* decoder.decodeParameters([type], data) of two words
DecodeInvalid ==
  /\ last.op = "invalid"
  /\ \E decoded \in { decodeParameters(<<last.type>>, WordHex(<<1>>) \o WordHex(<<>>), <<>>) } :
       last' = [op |-> "decodeInvalid", type |-> last.type, ok |-> decoded.ok,
                result |-> decoded.values]
  /\ UNCHANGED <<selectorCache, signatureCache, typeCache, codec, codecCache>>

NextInvalid == EncodeInvalid \/ DecodeInvalid

SpecInvalid == InitInvalid /\ [][NextInvalid]_vars

\* C21: encoding and decoding fail for uintN and intN whose N is no
\* multiple of 8 or lies outside 8..256, for bytesN with N outside 1..32
\* and for an array of length 0
C21_InvalidTypes ==
  last.op \in { "encodeInvalid", "decodeInvalid" } => ~last.ok

\* a value has been encoded as uint7
C21_Reached ==
  /\ last.op = "encodeInvalid"
  /\ last.type = TStr("uint", 7, <<>>)

\* two words have been decoded as bytes33
C21_DecodeReached ==
  /\ last.op = "decodeInvalid"
  /\ last.type = TStr("bytes", 33, <<>>)

\* ------------------------------------------------------------------------
\* The cache of the encoder
\* ------------------------------------------------------------------------

\* the characters of "false" and of "true"
FalseText == VText(<<102, 97, 108, 115, 101>>)
TrueText  == VText(<<116, 114, 117, 101>>)

\* calls of encodeParameters: values well-formed under their type, and a
\* number given for a string
EncoderCalls ==
  { [types |-> <<Bool>>, values |-> <<v>>] : v \in { VBool(FALSE), VBool(TRUE), FalseText } }
  \cup { [types |-> <<String>>, values |-> <<v>>] : v \in { Dec(5), VNum(BigOfInt(5)), Hello } }
  \cup { [types |-> <<Uint256>>, values |-> <<v>>] : v \in { Dec(5), VNum(BigOfInt(5)) } }
  \cup { [types |-> <<Uint256Array>>, values |-> <<VArr(<<Dec(5)>>)>>] }

\* codec.encoder.encodeParameters(types, values)
EncodeParametersOf ==
  \E call \in EncoderCalls :
    \E encoded \in { encodeParameters(call.types, call.values, codec.encoder) } :
      /\ last' = [op |-> "encodeParameters", types |-> call.types, values |-> call.values,
                  ok |-> encoded.ok, hex |-> encoded.hex]
      /\ codec' = [codec EXCEPT !.encoder = encoded.cache]
      /\ UNCHANGED <<selectorCache, signatureCache, typeCache, codecCache>>

\* codec.encodeFunction('transfer', [to, amount]) on a codec that has it
EncodeFunctionOf ==
  \E amount \in { Dec(5), VNum(BigOfInt(5)), VNum(BigOfInt(-5)) } :
    /\ KeyOfName("transfer") \in DOMAIN codec.functions
    /\ \E encoded \in { encodeFunction(codec, KeyOfName("transfer"), <<Addr1, amount>>, U) } :
         /\ last' = [op |-> "encodeFunction", types |-> transfer.inputs,
                     values |-> <<Addr1, amount>>, ok |-> encoded.ok,
                     hex |-> IF encoded.ok THEN SliceFrom(encoded.hex, 8) ELSE <<>>]
         /\ codec' = encoded.codec
         /\ SetU(encoded.u)
    /\ UNCHANGED codecCache

NextEncoderCache == Construct \/ EncodeParametersOf \/ EncodeFunctionOf

SpecEncoderCache == Init /\ [][NextEncoderCache]_vars

\* C22: whatever has been encoded on the Encoder before, a call returns the
\* bytes, or raises an error, as it does on a new Encoder
C22_EncoderMemoization ==
  last.op \in { "encodeParameters", "encodeFunction" } =>
    /\ last.ok = encodeParameters(last.types, last.values, <<>>).ok
    /\ last.hex = encodeParameters(last.types, last.values, <<>>).hex

\* the string 'false' has been encoded as a bool on an Encoder that had
\* encoded the boolean false
C22_Reached ==
  /\ last.op = "encodeParameters"
  /\ last.types = <<Bool>>
  /\ last.values = <<FalseText>>
  /\ [type |-> Bool, value |-> Render(VBool(FALSE)).key] \in DOMAIN codec.encoder

\* the number 5 has been encoded as a string on an Encoder that had encoded
\* the string '5'
C22_NumberReached ==
  /\ last.op = "encodeParameters"
  /\ last.types = <<String>>
  /\ last.values = <<VNum(BigOfInt(5))>>
  /\ last.ok

\* ------------------------------------------------------------------------
\* The shapes of what decodeLogs is given
\* ------------------------------------------------------------------------

\* a Transfer log, a Mint log and a PairCreated log
ShapeLogs == { log \in CommonLogs : log.address = Addr1 }

\* sequences of at most MaxLogs of these logs
LogLists == UNION { [1..n -> ShapeLogs] : n \in 0..MaxLogs }

\* a receipt without logs, and receipts of no log and of one log
NoLogsReceipt == [status |-> 1]
SmallReceipts == { NoLogsReceipt, [logs |-> <<>>] } \cup { [logs |-> <<log>>] : log \in ShapeLogs }

\* the logs of the receipts that have logs, in the order of the receipts
RECURSIVE LogsOfReceipts(_)
LogsOfReceipts(receipts) ==
  IF receipts = <<>> THEN <<>>
  ELSE (IF "logs" \in DOMAIN receipts[1] THEN receipts[1].logs ELSE <<>>)
         \o LogsOfReceipts(Tail(receipts))

\* what a caller gives decodeLogs, with the logs it holds: an array of logs,
\* a receipt, an array of one receipt, an array of two receipts
Shaped ==
  { [shape |-> "logs", receipts |-> [items |-> logs], logs |-> logs] : logs \in LogLists }
  \cup { [shape |-> "receipt", receipts |-> [logs |-> logs], logs |-> logs] :
           logs \in LogLists }
  \cup { [shape |-> "receipts", receipts |-> [items |-> <<[logs |-> logs]>>], logs |-> logs] :
           logs \in LogLists }
  \cup { [shape |-> "receipts", receipts |-> [items |-> <<r1, r2>>],
          logs |-> LogsOfReceipts(<<r1, r2>>)] : r1 \in SmallReceipts, r2 \in SmallReceipts }

\* decodeLogs(receipts), and decodeLogs(logs) of the logs alone as it
\* returns in the same state
DecodeLogsOf ==
  \E given \in Shaped :
    \E decoded \in { decodeLogs(given.receipts, codecCache, U) } :
      \E direct \in { decodeLogs([items |-> given.logs], codecCache, U) } :
        /\ last' = [op |-> "decodeLogsOf", shape |-> given.shape, receipts |-> given.receipts,
                    logs |-> given.logs, value |-> decoded.value, direct |-> direct.value]
        /\ codecCache' = decoded.codecCache
        /\ SetU(decoded.u)
        /\ UNCHANGED codec

SpecShapes == Init /\ [][DecodeLogsOf]_vars

\* C23: decodeLogs(L), decodeLogs({logs: L}) and decodeLogs([{logs: L}])
\* return the same, and for an array of receipts decodeLogs returns what it
\* returns for the logs of the receipts that have logs, in the order of the
\* receipts, whichever receipt is the first
C23_InputShapes ==
  last.op = "decodeLogsOf" => last.value = last.direct

\* an array of two receipts of which the first has no logs and the second
\* has one log has been decoded
C23_Reached ==
  /\ last.op = "decodeLogsOf"
  /\ last.shape = "receipts"
  /\ Len(last.receipts.items) = 2
  /\ last.receipts.items[1] = NoLogsReceipt
  /\ Len(last.logs) = 1

\* an array of one receipt of two logs has given what the two logs give
C23_OneReceiptReached ==
  /\ last.op = "decodeLogsOf"
  /\ last.shape = "receipts"
  /\ Len(last.receipts.items) = 1
  /\ Len(last.logs) = 2
  /\ last.value = last.direct
  /\ Len(last.value.transfers) + Len(last.value.mints) + Len(last.value.pairCreated) = 2

\* ------------------------------------------------------------------------
\* The layout of head and tail
\* ------------------------------------------------------------------------

\* the longest parameter list encoded
MaxParams == 3

FixedArray3 == TStr("uint", 256, <<3>>)
StringPair  == TStr("string", -1, <<2>>)

\* pairs of a type without tuples and a value well-formed under it
LayoutTyped ==
  { <<Uint256, Dec(5)>>, <<Bool, VBool(TRUE)>>, <<String, Hello>>,
    <<Bytes, VHex(<<1, 2, 3, 4>>)>>, <<Uint256Array, VArr(<<Dec(1), Dec(2)>>)>>,
    <<FixedArray3, VArr(<<Dec(1), Dec(2), Dec(3)>>)>>,
    <<StringPair, VArr(<<VText(<<97>>), VText(<<98, 99>>)>>)>> }

\* the caller has chosen a list of at most MaxParams parameters
InitLayout ==
  /\ selectorCache = <<>>
  /\ signatureCache = <<>>
  /\ typeCache = <<>>
  /\ codec = ABICodec(<<>>, NoCaches).codec
  /\ codecCache = <<>>
  /\ last \in UNION { { [op |-> "layout",
                         types |-> SeqOf([i \in 1..n |-> list[i][1]], n),
                         values |-> SeqOf([i \in 1..n |-> list[i][2]], n)] :
                          list \in [1..n -> LayoutTyped] } : n \in 1..MaxParams }

\* encoder.encodeParameters(types, values)
EncodeLayout ==
  /\ last.op = "layout"
  /\ \E encoded \in { encodeParameters(last.types, last.values, <<>>) } :
       last' = [op |-> "encodeLayout", types |-> last.types, values |-> last.values,
                ok |-> encoded.ok, buf |-> BytesOfHex(encoded.hex)]
  /\ UNCHANGED <<selectorCache, signatureCache, typeCache, codec, codecCache>>

SpecLayout == InitLayout /\ [][EncodeLayout]_vars

\* a type is dynamic when it is bytes, string, an array T[], an array T[k]
\* of a dynamic T, or a tuple with a dynamic field
RECURSIVE IsDynamic(_)
IsDynamic(type) ==
  LET typeStr == TypeStrOf(type)
  IN IF typeStr.dims # <<>>
     THEN typeStr.dims[Len(typeStr.dims)] = -1 \/ IsDynamic(ElementType(type))
     ELSE IF typeStr.k = "tuple"
     THEN type.js = "object" /\ \E i \in 1..Len(type.components) : IsDynamic(type.components[i])
     ELSE IsName(typeStr, "bytes") \/ IsName(typeStr, "string")

\* the bytes a static type without tuples takes
RECURSIVE StaticSize(_)
StaticSize(type) ==
  IF type.dims = <<>> THEN 32
  ELSE type.dims[Len(type.dims)] * StaticSize(ElementType(type))

HeadSize(type) == IF IsDynamic(type) THEN 32 ELSE StaticSize(type)

RECURSIVE HeadSizes(_, _)
HeadSizes(types, n) == IF n = 0 THEN 0 ELSE HeadSizes(types, n - 1) + HeadSize(types[n])

\* the bytes the tails of the dynamic parameters before parameter i take
RECURSIVE TailsBefore(_, _, _)
TailsBefore(types, values, i) ==
  IF i <= 1 THEN 0
  ELSE TailsBefore(types, values, i - 1)
         + (IF IsDynamic(types[i - 1])
            THEN Len(encodeParameter(types[i - 1], values[i - 1], <<>>).buf) ELSE 0)

\* the number a 32-byte word at a byte index holds, -1 past the end
WordAt(buf, index) ==
  IF index + 32 > Len(buf) THEN -1 ELSE ToNumber(Strip(SubSeq(buf, index + 1, index + 32)))

\* C24: in what encodeParameters returns the head takes the sum of the
\* head sizes, 32 bytes for a dynamic type and the whole size for a static
\* one, and the head word of each dynamic parameter is the index at which
\* its tail starts
C24_HeadTail ==
  (last.op = "encodeLayout" /\ last.ok) =>
    /\ Len(last.buf) = HeadSizes(last.types, Len(last.types))
                         + TailsBefore(last.types, last.values, Len(last.types) + 1)
    /\ \A i \in 1..Len(last.types) :
         IsDynamic(last.types[i]) =>
           WordAt(last.buf, HeadSizes(last.types, i - 1))
             = HeadSizes(last.types, Len(last.types)) + TailsBefore(last.types, last.values, i)

\* a uint256[3] and a string have been encoded together
C24_Reached ==
  /\ last.op = "encodeLayout"
  /\ last.ok
  /\ last.types = <<FixedArray3, String>>

\* a uint256, a string and a uint256[] have been encoded with the offsets
\* of the two tails
C24_PlainReached ==
  /\ last.op = "encodeLayout"
  /\ last.types = <<Uint256, String, Uint256Array>>
  /\ WordAt(last.buf, 32) = 96
  /\ WordAt(last.buf, 64) = 160

\* ------------------------------------------------------------------------
\* Static and dynamic types
\* ------------------------------------------------------------------------

\* array suffixes of one and of two dimensions, and none
Suffixes == { <<>>, <<-1>>, <<2>>, <<3>>, <<2, -1>>, <<-1, 2>>, <<2, 3>> }

\* type expressions, and descriptors of tuples and of arrays of tuples
Classified ==
  { TStr(b[1], b[2], d) : b \in { <<"uint", 256>>, <<"int", 8>>, <<"bool", -1>>,
                                  <<"address", -1>>, <<"bytes", -1>>, <<"string", -1>>,
                                  <<"bytes", 32>> },
                          d \in Suffixes }
  \cup { TObj("t", TStr("tuple", -1, d), c) :
           d \in { <<>>, <<-1>>, <<2>> },
           c \in { StaticTuple.components, DynamicTuple.components } }

\* the caller has chosen a type
InitClassified ==
  /\ selectorCache = <<>>
  /\ signatureCache = <<>>
  /\ typeCache = <<>>
  /\ codec = ABICodec(<<>>, NoCaches).codec
  /\ codecCache = <<>>
  /\ last \in { [op |-> "type", type |-> t] : t \in Classified }

\* encoder.isDynamicType(typeStr), given the type string as encodeParameters
\* gives it
EncoderIsDynamic ==
  /\ last.op = "type"
  /\ last' = [op |-> "Encoder.isDynamicType", type |-> last.type,
              value |-> Encoder_isDynamicType(TypeStrOf(last.type))]
  /\ UNCHANGED <<selectorCache, signatureCache, typeCache, codec, codecCache>>

\* decoder.isDynamicType(type)
DecoderIsDynamic ==
  /\ last.op = "type"
  /\ last' = [op |-> "Decoder.isDynamicType", type |-> last.type,
              value |-> Decoder_isDynamicType(last.type)]
  /\ UNCHANGED <<selectorCache, signatureCache, typeCache, codec, codecCache>>

NextClassified == EncoderIsDynamic \/ DecoderIsDynamic

SpecClassified == InitClassified /\ [][NextClassified]_vars

\* C25: Encoder.isDynamicType and Decoder.isDynamicType return true for
\* bytes, string, T[], T[k] of a dynamic T and a tuple with a dynamic
\* field, and false for every other type
C25_Dynamism ==
  last.op \in { "Encoder.isDynamicType", "Decoder.isDynamicType" } =>
    last.value = IsDynamic(last.type)

\* the decoder has classified string[2]
C25_Reached ==
  /\ last.op = "Decoder.isDynamicType"
  /\ last.type = StringPair

\* the encoder has classified a tuple of static fields
C25_EncoderReached ==
  /\ last.op = "Encoder.isDynamicType"
  /\ last.type = TObj("t", Tuple, StaticTuple.components)

\* ------------------------------------------------------------------------
\* Arrays of a dynamic element type
\* ------------------------------------------------------------------------

\* the longest array encoded
MaxElems == 3

\* dynamic element types, each with two values
DynamicElements ==
  { [type |-> String, items |-> { VText(<<97>>), VText(<<98, 99>>) }],
    [type |-> Bytes, items |-> { VHex(<<>>), VHex(<<1, 2>>) }],
    [type |-> Uint256Array, items |-> { VArr(<<>>), VArr(<<Dec(1), Dec(2)>>) }],
    [type |-> StringPair, items |-> { VArr(<<VText(<<97>>), VText(<<98, 99>>)>>),
                                      VArr(<<VText(<<98, 99>>), VText(<<97>>)>>) }] }

\* the array type of an element type: T[] when k is -1, else T[k]
ArrayOf(type, k) == TStr(type.k, type.n, type.dims \o <<k>>)

\* arrays T[] and T[k] of at most MaxElems such elements
DynamicArrays ==
  UNION { UNION { { [type |-> ArrayOf(e.type, k), values |-> VArr(items)] : k \in { -1, n } } :
                    items \in [1..n -> e.items] } :
            e \in DynamicElements, n \in 0..MaxElems }

\* the caller has chosen an array
InitArrays ==
  /\ selectorCache = <<>>
  /\ signatureCache = <<>>
  /\ typeCache = <<>>
  /\ codec = ABICodec(<<>>, NoCaches).codec
  /\ codecCache = <<>>
  /\ last \in { [op |-> "array", type |-> a.type, values |-> a.values] : a \in DynamicArrays }

\* encoder.encodeArray(type, values)
EncodeArrayOf ==
  /\ last.op = "array"
  /\ \E encoded \in { encodeArray(last.type, last.values, <<>>) } :
       last' = [op |-> "encodeArray", type |-> last.type, values |-> last.values,
                ok |-> encoded.ok, buf |-> encoded.buf]
  /\ UNCHANGED <<selectorCache, signatureCache, typeCache, codec, codecCache>>

SpecArrays == InitArrays /\ [][EncodeArrayOf]_vars

\* a number as a 32-byte word
Word(n) == PadTo(NatOfInt(n), 32)

\* the encodings of the elements, in their order
ElementEncodings(type, values) ==
  SeqOf([i \in 1..values.len |->
           encodeParameter(ElementType(type), values.items[i], <<>>).buf], values.len)

\* offset word i of L: 32 * L and the lengths of the encodings before i
RECURSIVE LengthsBefore(_, _)
LengthsBefore(bufs, i) == IF i <= 1 THEN 0 ELSE LengthsBefore(bufs, i - 1) + Len(bufs[i - 1])

InnerOffsets(bufs) ==
  Concat(SeqOf([i \in 1..Len(bufs) |-> Word(32 * Len(bufs) + LengthsBefore(bufs, i))],
               Len(bufs)))

\* C26: for an array of L elements of a dynamic type encodeArray gives the
\* length word L, for T[] only, then L offset words, then the encodings of
\* the elements in order, offset i being 32 * L and the lengths of the
\* encodings of the elements before i
C26_InnerOffsets ==
  last.op = "encodeArray" =>
    /\ last.ok
    /\ last.buf = (IF last.type.dims[Len(last.type.dims)] = -1 THEN Word(last.values.len)
                   ELSE <<>>)
                    \o InnerOffsets(ElementEncodings(last.type, last.values))
                    \o Concat(ElementEncodings(last.type, last.values))

\* an array string[2][] of one element has been encoded
C26_Reached ==
  /\ last.op = "encodeArray"
  /\ last.type = TStr("string", -1, <<2, -1>>)
  /\ last.values.len = 1

\* string[] of 'a' and 'bc' has the inner offsets 0x40 and 0x80
C26_StringsReached ==
  /\ last.op = "encodeArray"
  /\ last.type = TStr("string", -1, <<-1>>)
  /\ last.values = VArr(<<VText(<<97>>), VText(<<98, 99>>)>>)
  /\ SubSeq(last.buf, 1, 96) = Word(2) \o Word(64) \o Word(128)

\* ------------------------------------------------------------------------
\* The suffixes of array types
\* ------------------------------------------------------------------------

\* the most suffixes an array type has
MaxDims == 3

\* array types of one to MaxDims suffixes, each [] or [1] to [3]
Suffixed ==
  { TStr(base.k, base.n, dims) :
      base \in { Uint256, Bool, String, Address, Bytes },
      dims \in UNION { [1..n -> { -1, 1, 2, 3 }] : n \in 1..MaxDims } }

\* the caller has chosen an array type
InitSuffixed ==
  /\ selectorCache = <<>>
  /\ signatureCache = <<>>
  /\ typeCache = <<>>
  /\ codec = ABICodec(<<>>, NoCaches).codec
  /\ codecCache = <<>>
  /\ last \in { [op |-> "type", type |-> type] : type \in Suffixed }

\* the first lines of encoder.encodeArray(type, values)
EncoderParses ==
  /\ last.op = "type"
  /\ last' = [op |-> "Encoder.encodeArray", type |-> last.type,
              parsed |-> Encoder_parseArrayType(last.type)]
  /\ UNCHANGED <<selectorCache, signatureCache, typeCache, codec, codecCache>>

\* the first lines of decoder.decodeArray(type, buffer, offset)
DecoderParses ==
  /\ last.op = "type"
  /\ last' = [op |-> "Decoder.decodeArray", type |-> last.type,
              parsed |-> Decoder_parseArrayType(last.type)]
  /\ UNCHANGED <<selectorCache, signatureCache, typeCache, codec, codecCache>>

NextSuffixed == EncoderParses \/ DecoderParses

SpecSuffixed == InitSuffixed /\ [][NextSuffixed]_vars

\* the rightmost suffix of the type is the outer dimension, what is left of
\* it the element type
RightmostParsed(type, parsed) ==
  /\ parsed.baseType = TStr(type.k, type.n, Front(type.dims))
  /\ parsed.isFixedSize = (type.dims[Len(type.dims)] # -1)
  /\ parsed.isFixedSize => parsed.fixedSize = type.dims[Len(type.dims)]

\* C27: for every array type, those of several dimensions included,
\* encodeArray and decodeArray both take the rightmost suffix as the outer
\* dimension, so both derive the same element type and the same outer length
C27_RightmostSuffix ==
  last.op \in { "Encoder.encodeArray", "Decoder.decodeArray" } =>
    RightmostParsed(last.type, last.parsed)

\* the decoder has read uint256[2][]
C27_Reached ==
  /\ last.op = "Decoder.decodeArray"
  /\ last.type = TStr("uint", 256, <<2, -1>>)

\* the encoder has read uint256[][3]
C27_EncoderReached ==
  /\ last.op = "Encoder.encodeArray"
  /\ last.type = TStr("uint", 256, <<-1, 3>>)
  /\ last.parsed.baseType = Uint256Array

\* ------------------------------------------------------------------------
\* Caches that are nearly full
\* ------------------------------------------------------------------------

\* the distinct inputs tried once the caches hold CacheLimit - 1 entries
MaxFresh == 3

\* the i-th of the distinct functions: f<i>(uint256 a<i>)
NthFunction(i) ==
  Fn("f" \o ToString(i), <<TObj("a" \o ToString(i), Uint256, <<>>)>>, <<>>)

\* the i-th of the distinct values encoded as uint256
NthValue(i) == Dec(i)

\* the i-th of the distinct places decoded: a uint of some width at some
\* offset of 64 bytes
NthPlace(i) == [type |-> TStr("uint", 8 * (1 + (i % 32)), <<>>), offset |-> i \div 32]

\* the caches of utils.js after getFunctionSignature of the functions lo..hi
RECURSIVE SignaturesOf(_, _, _)
SignaturesOf(lo, hi, u) ==
  IF lo > hi THEN u
  ELSE IF lo = hi THEN getFunctionSignature(NthFunction(lo), u).u
  ELSE CHOOSE all \in { SignaturesOf((lo + hi) \div 2 + 1, hi, half) :
                        half \in { SignaturesOf(lo, (lo + hi) \div 2, u) } } : TRUE

\* the cache of an Encoder after encodeParameter of the values lo..hi
RECURSIVE EncodedOf(_, _, _)
EncodedOf(lo, hi, cache) ==
  IF lo > hi THEN cache
  ELSE IF lo = hi THEN encodeParameter(Uint256, NthValue(lo), cache).cache
  ELSE CHOOSE all \in { EncodedOf((lo + hi) \div 2 + 1, hi, half) :
                        half \in { EncodedOf(lo, (lo + hi) \div 2, cache) } } : TRUE

\* the cache of a Decoder after decodeParameter of the places lo..hi
RECURSIVE DecodedOf(_, _, _)
DecodedOf(lo, hi, cache) ==
  IF lo > hi THEN cache
  ELSE IF lo = hi
       THEN decodeParameter(NthPlace(lo).type, Zeros(64), NthPlace(lo).offset, cache).cache
  ELSE CHOOSE all \in { DecodedOf((lo + hi) \div 2 + 1, hi, half) :
                        half \in { DecodedOf(lo, (lo + hi) \div 2, cache) } } : TRUE

NearlyFullU == SignaturesOf(1, CacheLimit - 1, NoCaches)
NearlyFullEncoder == EncodedOf(1, CacheLimit - 1, <<>>)
NearlyFullDecoder == DecodedOf(1, CacheLimit - 1, <<>>)

\* the program has signed, encoded and decoded CacheLimit - 1 distinct inputs
InitNearlyFull ==
  /\ selectorCache = NearlyFullU.selectorCache
  /\ signatureCache = NearlyFullU.signatureCache
  /\ typeCache = NearlyFullU.typeCache
  /\ codec = [ABICodec(<<>>, NoCaches).codec EXCEPT !.encoder = NearlyFullEncoder,
                                                    !.decoder = NearlyFullDecoder]
  /\ codecCache = <<>>
  /\ last = [op |-> "none"]

\* the inputs the caches have not seen
Fresh == CacheLimit..(CacheLimit + MaxFresh - 1)

\* getFunctionSignature(func)
SignFresh ==
  /\ \E i \in Fresh :
       \E signed \in { getFunctionSignature(NthFunction(i), U) } :
         /\ SetU(signed.u)
         /\ last' = [op |-> "getFunctionSignature", i |-> i, ok |-> TRUE]
  /\ UNCHANGED <<codec, codecCache>>

\* codec.encoder.encodeParameter('uint256', value)
EncodeFresh ==
  /\ \E i \in Fresh :
       \E encoded \in { encodeParameter(Uint256, NthValue(i), codec.encoder) } :
         /\ codec' = [codec EXCEPT !.encoder = encoded.cache]
         /\ last' = [op |-> "encodeParameter", i |-> i, ok |-> encoded.ok]
  /\ UNCHANGED <<selectorCache, signatureCache, typeCache, codecCache>>

\* codec.decoder.decodeParameter(type, buffer, offset)
DecodeFresh ==
  /\ \E i \in Fresh :
       \E decoded \in { decodeParameter(NthPlace(i).type, Zeros(64), NthPlace(i).offset,
                                        codec.decoder) } :
         /\ codec' = [codec EXCEPT !.decoder = decoded.cache]
         /\ last' = [op |-> "decodeParameter", i |-> i, ok |-> decoded.ok]
  /\ UNCHANGED <<selectorCache, signatureCache, typeCache, codecCache>>

NextNearlyFull == SignFresh \/ EncodeFresh \/ DecodeFresh

SpecNearlyFull == InitNearlyFull /\ [][NextNearlyFull]_vars

Size(cache) == Cardinality(DOMAIN cache)

\* C28: the cache of the encoder, the cache of the decoder, selectorCache,
\* signatureCache and typeCache each hold at most a fixed number of
\* entries, that of the code being CacheLimit
C28_Bounded ==
  /\ Size(codec.encoder) <= CacheLimit
  /\ Size(codec.decoder) <= CacheLimit
  /\ Size(selectorCache) <= CacheLimit
  /\ Size(signatureCache) <= CacheLimit
  /\ Size(typeCache) <= CacheLimit

\* a signature has been computed and stored when signatureCache and
\* typeCache held CacheLimit entries
C28_Reached ==
  /\ last.op = "getFunctionSignature"
  /\ SelectorKey(NthFunction(last.i)) \in DOMAIN signatureCache
  /\ Size(signatureCache) > CacheLimit
  /\ Size(typeCache) > CacheLimit

\* a value has been encoded and not stored, the cache of the encoder being
\* full
C28_DroppedReached ==
  /\ last.op = "encodeParameter"
  /\ last.ok
  /\ Size(codec.encoder) = CacheLimit
  /\ [type |-> Uint256, value |-> Render(NthValue(last.i)).key] \notin DOMAIN codec.encoder

\* ------------------------------------------------------------------------
\* The cache of the decoder
\* ------------------------------------------------------------------------

\* two buffers of the same length
SameLength == { Zeros(64), WordOf(1) \o WordOf(2) }

\* the places decoded: a type and an offset
Places ==
  { [type |-> Uint256, offset |-> 0], [type |-> Uint256, offset |-> 32],
    [type |-> String, offset |-> 0], [type |-> Bool, offset |-> 32] }

\* a decoder that is new, or one that has decoded CacheLimit - 1 places
InitDecoderCache ==
  /\ selectorCache = <<>>
  /\ signatureCache = <<>>
  /\ typeCache = <<>>
  /\ \E cache \in { <<>>, NearlyFullDecoder } :
       codec = [ABICodec(<<>>, NoCaches).codec EXCEPT !.decoder = cache]
  /\ codecCache = <<>>
  /\ last = [op |-> "none"]

\* codec.decoder.decodeParameter(type, buffer, offset)
DecodeParameterOf ==
  /\ \E place \in Places, buffer \in SameLength :
       \E decoded \in { decodeParameter(place.type, buffer, place.offset, codec.decoder) } :
         /\ codec' = [codec EXCEPT !.decoder = decoded.cache]
         /\ last' = [op |-> "decodeParameter", type |-> place.type, buf |-> buffer,
                     offset |-> place.offset, ok |-> decoded.ok,
                     value |-> IF decoded.ok THEN decoded.value ELSE VUndefined,
                     nextOffset |-> IF decoded.ok THEN decoded.nextOffset ELSE 0]
  /\ UNCHANGED <<selectorCache, signatureCache, typeCache, codecCache>>

SpecDecoderCache == InitDecoderCache /\ [][DecodeParameterOf]_vars

\* the key of the call last made
KeyOfCall(call) == [type |-> call.type, offset |-> call.offset, length |-> Len(call.buf)]

\* C29: the cache of the decoder has at most 1000 entries; an entry stored
\* under a key (type, offset, length of the buffer) is never replaced or
\* removed; and when the key is present decodeParameter returns what is
\* stored, which is what the first buffer decoded under that key gave
C29_WriteOnce ==
  [][/\ Size(codec'.decoder) <= 1000
     /\ \A key \in DOMAIN codec.decoder :
          /\ key \in DOMAIN codec'.decoder
          /\ codec'.decoder[key] = codec.decoder[key]
     /\ (last'.op = "decodeParameter" /\ KeyOfCall(last') \in DOMAIN codec.decoder) =>
          /\ last'.ok
          /\ last'.value = codec.decoder[KeyOfCall(last')].value
          /\ last'.nextOffset = codec.decoder[KeyOfCall(last')].nextOffset]_vars

\* a call has returned what is stored under its key, which is not what its
\* own buffer holds
C29_Reached ==
  /\ last.op = "decodeParameter"
  /\ last.ok
  /\ KeyOfCall(last) \in DOMAIN codec.decoder
  /\ last.value = codec.decoder[KeyOfCall(last)].value
  /\ last.value # decodeParameter(last.type, last.buf, last.offset, <<>>).value

\* the cache is full and a call whose key it does not hold has returned
C29_FullReached ==
  /\ last.op = "decodeParameter"
  /\ last.ok
  /\ Size(codec.decoder) = 1000
  /\ KeyOfCall(last) \notin DOMAIN codec.decoder

\* ------------------------------------------------------------------------
\* Logs with topics or data missing
\* ------------------------------------------------------------------------

\* an event with an indexed parameter of a dynamic type
Named ==
  [type |-> "event", name |-> "Named",
   inputs |-> <<TEv("label", String, TRUE), TEv("id", Uint256, TRUE),
                TEv("flag", Bool, FALSE)>>]

\* events, each with data well-formed for its parameters that are not indexed
LogEvents ==
  { [event |-> COMMON_EVENT_ABIS("ERC20_TRANSFER")[1],
     datas |-> { WordHex(<<5>>), WordHex(<<6>>) }],
    [event |-> COMMON_EVENT_ABIS("UNISWAP_V2_MINT")[1],
     datas |-> { WordHex(<<1>>) \o WordHex(<<2>>), WordHex(<<3>>) \o WordHex(<<4>>) }],
    [event |-> COMMON_EVENT_ABIS("UNISWAP_V2_PAIR_CREATED")[1],
     datas |-> { WordHex(Addr1.hex) \o WordHex(<<1>>), WordHex(Addr2.hex) \o WordHex(<<2>>) }],
    [event |-> Named, datas |-> { WordHex(<<0>>), WordHex(<<1>>) }] }

\* logs of these events with all their topics or fewer, and their data or none
PartLogs ==
  UNION { { [event |-> e.event, topics |-> topics, data |-> data] :
              topics \in UNION { [1..n -> Topics] :
                                 n \in 0..(1 + Len(SelectSeq(e.event.inputs, IsIndexed))) },
              data \in e.datas \cup { <<>> } } :
          e \in LogEvents }

\* the caller has chosen an event and a log
InitPartLogs ==
  /\ selectorCache = <<>>
  /\ signatureCache = <<>>
  /\ typeCache = <<>>
  /\ codec = ABICodec(<<>>, NoCaches).codec
  /\ codecCache = <<>>
  /\ last \in { [op |-> "log", event |-> log.event, topics |-> log.topics,
                 data |-> log.data] : log \in PartLogs }

\* new Decoder().decodeLog(eventAbi, data, topics)
DecodePartLog ==
  /\ last.op = "log"
  /\ \E decoded \in { Decoder_decodeLog(last.event, last.data, last.topics, <<>>) } :
       last' = [op |-> "decodeLog", event |-> last.event, topics |-> last.topics,
                data |-> last.data, ok |-> decoded.ok, value |-> decoded.value]
  /\ UNCHANGED <<selectorCache, signatureCache, typeCache, codec, codecCache>>

SpecPartLogs == InitPartLogs /\ [][DecodePartLog]_vars

\* the names of the parameters a log has a topic or data for
PresentNames(event, topics, data) ==
  LET indexedParams == SelectSeq(event.inputs, IsIndexed)
  IN { indexedParams[i].name : i \in { j \in 1..Len(indexedParams) : j + 1 <= Len(topics) } }
       \cup (IF data = <<>> THEN {}
             ELSE { event.inputs[i].name :
                      i \in { j \in 1..Len(event.inputs) : ~IsIndexed(event.inputs[j]) } })

\* C30: when a log has fewer topics than one and the number of indexed
\* parameters, or no data, decodeLog returns { name, args } and args holds
\* the arguments that have a topic or data, and no others
C30_MissingInputs ==
  (/\ last.op = "decodeLog"
   /\ \/ Len(last.topics) < 1 + Len(SelectSeq(last.event.inputs, IsIndexed))
      \/ last.data = <<>>) =>
    /\ last.ok
    /\ last.value.name = last.event.name
    /\ { last.value.args.keys[i] : i \in 1..Len(last.value.args.keys) }
         = PresentNames(last.event, last.topics, last.data)

\* a Transfer log of two topics and no data has given from alone
C30_Reached ==
  /\ last.op = "decodeLog"
  /\ last.event.name = "Transfer"
  /\ Len(last.topics) = 2
  /\ last.data = <<>>
  /\ last.ok
  /\ last.value.args.keys = <<"from">>

\* a log of no topics with its data has given the arguments of the data
C30_NoTopicsReached ==
  /\ last.op = "decodeLog"
  /\ last.event.name = "Mint"
  /\ last.topics = <<>>
  /\ last.data # <<>>
  /\ last.ok
  /\ last.value.args.keys = <<"amount0", "amount1">>

\* ------------------------------------------------------------------------
\* The program
\* ------------------------------------------------------------------------

Next == \/ Construct
        \/ GetFunctionSelector
        \/ GetEventSelector
        \/ EncodeFunction
        \/ DecodeParameters
        \/ DecodeFunction
        \/ DecodeFunctionResult
        \/ DecodeLog
        \/ DecodeReceiptLogs
        \/ DecodeLogs

Spec == Init /\ [][Next]_vars

====
